---- MODULE Spec2Model ----
(***************************************************************************)
(* Chiller controller: the shared SystemState (state.py), the per-tick     *)
(* decision of control_loop (controller.py) and the sensor batch update.   *)
(* Time is in whole seconds, temperatures in whole degrees Fahrenheit.     *)
(* An override is "on", "off" or None (Auto).  An optional reading is the  *)
(* empty tuple for Python None and the one-element tuple <<v>> for v.      *)
(***************************************************************************)
EXTENDS Integers, FiniteSets, Sequences, TLC

VARIABLES
    cfg,                        \* values config.py loads at import time
    now,                        \* time.time()
    op,                         \* the operation that ran last
    setpoint, differential, ambient_lockout_setpoint,
    manual_pump_override, manual_chiller_override, manual_cooling_override,
    last_ahu_call_time, pump_post_purge_end_time, condenser_last_off_time,
    last_mqtt_message_time, mqtt_comms_lost,
    critical_sensor_fault, is_ahu_calling, ambient_lockout_active,
    ambient_temp_below_lockout_setpoint_since,
    ambient_temp_above_lockout_release_since,
    sensor_temps, sensor_readings_valid,
    relay_states,               \* SystemState._relay_states
    tick,                       \* locals of the last control_loop iteration
    sensor_loop_alive,          \* FALSE once update_temperatures has raised
    hist,                       \* history of the inputs (not program state)
    files,                      \* the three persisted JSON files
    effects,                    \* the last operation's argument, writes, actuations
    gpio,                       \* controller.py: _gpio_initialized and the pins
    stop_event,                 \* main.py: stop_event.is_set()
    controller_thread,          \* "loop" inside control_loop's while, then "done"
    threads                     \* positions and locals of operations in progress

paramVars == <<setpoint, differential, ambient_lockout_setpoint>>
overrideVars == <<manual_pump_override, manual_chiller_override, manual_cooling_override>>
callVars == <<last_ahu_call_time, pump_post_purge_end_time, is_ahu_calling>>
mqttVars == <<last_mqtt_message_time, mqtt_comms_lost>>
lockoutVars == <<ambient_lockout_active, ambient_temp_below_lockout_setpoint_since,
                 ambient_temp_above_lockout_release_since>>
sensorVars == <<sensor_temps, sensor_readings_valid, critical_sensor_fault, sensor_loop_alive>>
relayVars == <<relay_states, condenser_last_off_time>>
shutdownVars == <<gpio, stop_event, controller_thread>>

vars == <<cfg, now, op, paramVars, overrideVars, callVars, mqttVars, lockoutVars,
          sensorVars, relayVars, tick, hist, files, effects, shutdownVars, threads>>

\* Python None as an override value
None == "None"
\* Python None and a float as an optional reading
NoReading == << >>
Reading(v) == <<v>>
Value(r) == r[1]

(***************************************************************************)
(* Bounds of the model.                                                    *)
(***************************************************************************)
\* time.time() at construction; any value above every configured timeout
StartTime == 1000
\* seconds of run time explored under the scaled configuration
MaxTime == 5
\* seconds of run time explored with every override and remote calls
MaxTimeShort == 2
\* seconds of run time explored under the default configuration
MaxTimeCall == 365
\* seconds of run time explored around the default minimum off time
MaxTimeMinOff == 131
\* seconds of run time explored with the ambient lockout coming into force
MaxTimeManual == 3
\* scaled configuration: config.json may set any of these durations
ScaledMinOffTime == 2
ScaledCallTimeout == 2
ScaledPostPurge == 2
ScaledDebounce == 2
ScaledFailsafe == 3

(***************************************************************************)
(* config.py                                                               *)
(***************************************************************************)
FALLBACK_SETPOINT_F_DEFAULT == 45
INITIAL_DIFFERENTIAL_F_DEFAULT == 3
CONDENSER_MIN_OFF_TIME_SEC_DEFAULT == 120
AHU_CALL_TIMEOUT_SEC_DEFAULT == 300
PUMP_POST_PURGE_DURATION_SEC_DEFAULT == 60
MQTT_FAILSAFE_TIMEOUT_SEC_DEFAULT == 75
\* state.py imports these three from config; config.py does not define them
INITIAL_AMBIENT_LOCKOUT_SETPOINT_F_DEFAULT == 50
AMBIENT_LOCKOUT_DEADBAND_F_DEFAULT == 5
AMBIENT_LOCKOUT_DEBOUNCE_DURATION_SEC_DEFAULT == 60

AllKeys == {"supply", "ambient", "return"}

DEFAULT_CONFIG ==
    [ fallback_setpoint_f |-> FALLBACK_SETPOINT_F_DEFAULT,
      initial_differential_f |-> INITIAL_DIFFERENTIAL_F_DEFAULT,
      condenser_min_off_time_sec |-> CONDENSER_MIN_OFF_TIME_SEC_DEFAULT,
      ahu_call_timeout_sec |-> AHU_CALL_TIMEOUT_SEC_DEFAULT,
      pump_post_purge_duration_sec |-> PUMP_POST_PURGE_DURATION_SEC_DEFAULT,
      mqtt_failsafe_timeout_sec |-> MQTT_FAILSAFE_TIMEOUT_SEC_DEFAULT,
      initial_ambient_lockout_setpoint_f |-> INITIAL_AMBIENT_LOCKOUT_SETPOINT_F_DEFAULT,
      ambient_lockout_deadband_f |-> AMBIENT_LOCKOUT_DEADBAND_F_DEFAULT,
      ambient_lockout_debounce_duration_sec |-> AMBIENT_LOCKOUT_DEBOUNCE_DURATION_SEC_DEFAULT,
      sensor_ids |-> {"supply", "ambient"},
      critical_sensors |-> {"supply"} ]

\* a config.json that shortens the durations and keeps everything else
ScaledConfig ==
    [ DEFAULT_CONFIG EXCEPT
      !.condenser_min_off_time_sec = ScaledMinOffTime,
      !.ahu_call_timeout_sec = ScaledCallTimeout,
      !.pump_post_purge_duration_sec = ScaledPostPurge,
      !.mqtt_failsafe_timeout_sec = ScaledFailsafe,
      !.ambient_lockout_debounce_duration_sec = ScaledDebounce ]

FALLBACK_SETPOINT_F == cfg.fallback_setpoint_f
INITIAL_DIFFERENTIAL_F == cfg.initial_differential_f
CONDENSER_MIN_OFF_TIME_SEC == cfg.condenser_min_off_time_sec
AHU_CALL_TIMEOUT_SEC == cfg.ahu_call_timeout_sec
PUMP_POST_PURGE_DURATION_SEC == cfg.pump_post_purge_duration_sec
MQTT_FAILSAFE_TIMEOUT_SEC == cfg.mqtt_failsafe_timeout_sec
INITIAL_AMBIENT_LOCKOUT_SETPOINT_F == cfg.initial_ambient_lockout_setpoint_f
AMBIENT_LOCKOUT_DEADBAND_F == cfg.ambient_lockout_deadband_f
AMBIENT_LOCKOUT_DEBOUNCE_DURATION_SEC == cfg.ambient_lockout_debounce_duration_sec
SENSOR_IDS == cfg.sensor_ids
CRITICAL_SENSOR_KEYS == cfg.critical_sensors

(***************************************************************************)
(* state.py: SystemState                                                   *)
(***************************************************************************)
\* get_override: "on", "off" or None
get_override(device) ==
    CASE device = "pump" -> manual_pump_override
      [] device = "chiller" -> manual_chiller_override
      [] device = "cooling" -> manual_cooling_override
      [] OTHER -> None

\* get_sensor_temp: None unless the key's last reading was valid
get_sensor_temp(internal_key) ==
    IF ~sensor_readings_valid[internal_key] THEN NoReading ELSE sensor_temps[internal_key]

\* a cooling override of Off suppresses a remote call
call_is_currently_signaledUnlessOff(n) ==
    \/ (n - last_ahu_call_time) < AHU_CALL_TIMEOUT_SEC /\ get_override("cooling") /= "off"
    \/ get_override("cooling") = "on"

\* check_for_call_timeout, lines 311-315
call_is_currently_signaled(n) ==
    \/ (n - last_ahu_call_time) < AHU_CALL_TIMEOUT_SEC
    \/ get_override("cooling") = "on"

\* the purge window one second too long
PostPurgeEndLate(n) == n + PUMP_POST_PURGE_DURATION_SEC + 1

\* check_for_call_timeout, line 321: the purge window opened when the call ends
PostPurgeEnd(n) == n + PUMP_POST_PURGE_DURATION_SEC

\* the purge still counted as active at its end time
pump_post_purging_activeInclusive(n, end_time) == n <= end_time

\* check_for_call_timeout, line 325
pump_post_purging_active(n, end_time) == n < end_time

\* check_for_call_timeout: the new is_ahu_calling and pump_post_purge_end_time
\* and the returned overall_pump_demand
check_for_call_timeout(n) ==
    LET signaled == call_is_currently_signaled(n)
        end_time == IF is_ahu_calling /= signaled /\ ~signaled
                    THEN PostPurgeEnd(n)
                    ELSE pump_post_purge_end_time
    IN [ is_ahu_calling |-> signaled,
         pump_post_purge_end_time |-> end_time,
         overall_pump_demand |-> signaled \/ pump_post_purging_active(n, end_time) ]

\* the link counts as lost when the silence has lasted exactly the timeout
comms_lost_afterInclusive(n, comms_lost, last_message) ==
    IF (n - last_message) >= MQTT_FAILSAFE_TIMEOUT_SEC
    THEN TRUE
    ELSE comms_lost

\* check_mqtt_failsafe, lines 489-491, on the two fail-safe fields
comms_lost_after(n, comms_lost, last_message) ==
    IF (n - last_message) > MQTT_FAILSAFE_TIMEOUT_SEC
    THEN TRUE
    ELSE comms_lost

\* check_mqtt_failsafe: the new mqtt_comms_lost
check_mqtt_failsafe(n) == comms_lost_after(n, mqtt_comms_lost, last_mqtt_message_time)

\* a reading in the deadband releases the lockout
deadband_statusReleased(active) == [ active |-> FALSE, below |-> 0, above |-> 0 ]

\* lines 434-443: lockout_target <= ambient_temp <= release_target
deadband_status(active) == [ active |-> active, below |-> 0, above |-> 0 ]

\* the timestamp of the other side is kept when a side starts counting, and
\* both are kept in the deadband
LockoutStatusKeepTimers(n, ambient_temp, active, below_since, above_since, lockout_target) ==
    LET release_target == lockout_target + AMBIENT_LOCKOUT_DEADBAND_F
    IN  IF ambient_temp = NoReading
        THEN [ active |-> FALSE, below |-> 0, above |-> 0 ]
        ELSE IF Value(ambient_temp) < lockout_target
        THEN LET b == IF below_since = 0 THEN n ELSE below_since
             IN [ active |-> IF (n - b) >= AMBIENT_LOCKOUT_DEBOUNCE_DURATION_SEC
                             THEN TRUE ELSE active,
                  below |-> b, above |-> above_since ]
        ELSE IF Value(ambient_temp) > release_target
        THEN LET a == IF above_since = 0 THEN n ELSE above_since
             IN [ active |-> IF (n - a) >= AMBIENT_LOCKOUT_DEBOUNCE_DURATION_SEC
                             THEN FALSE ELSE active,
                  below |-> below_since, above |-> a ]
        ELSE [ active |-> active, below |-> below_since, above |-> above_since ]

\* update_ambient_lockout_status on the reading ambient_temp at time n:
\* the new lockout flag and the two debounce timestamps
LockoutStatus(n, ambient_temp, active, below_since, above_since, lockout_target) ==
    LET release_target == lockout_target + AMBIENT_LOCKOUT_DEADBAND_F
    IN  IF ambient_temp = NoReading
        THEN [ active |-> FALSE, below |-> 0, above |-> 0 ]
        ELSE IF Value(ambient_temp) < lockout_target
        THEN LET b == IF below_since = 0 THEN n ELSE below_since
             IN [ active |-> IF (n - b) >= AMBIENT_LOCKOUT_DEBOUNCE_DURATION_SEC
                             THEN TRUE ELSE active,
                  below |-> b, above |-> 0 ]
        ELSE IF Value(ambient_temp) > release_target
        THEN LET a == IF above_since = 0 THEN n ELSE above_since
             IN [ active |-> IF (n - a) >= AMBIENT_LOCKOUT_DEBOUNCE_DURATION_SEC
                             THEN FALSE ELSE active,
                  below |-> 0, above |-> a ]
        ELSE deadband_status(active)

\* update_temperatures, line 342
IsValidReading(val) == val /= NoReading

\* update_temperatures, lines 341-350: the readings kept after the batch
BatchTemps(batch) ==
    [ k \in AllKeys |->
        IF k \in DOMAIN batch /\ IsValidReading(batch[k]) THEN batch[k] ELSE sensor_temps[k] ]

BatchValid(batch) ==
    [ k \in AllKeys |->
        IF k \in DOMAIN batch THEN IsValidReading(batch[k]) ELSE sensor_readings_valid[k] ]

\* update_temperatures, lines 343-344
ambient_temp_updated(batch) ==
    "ambient" \in DOMAIN batch /\ IsValidReading(batch["ambient"])

\* an invalid reading of any configured sensor raises the fault
FaultAfterBatchAnyKey(valid) == \E key \in {"supply", "ambient"} : ~valid[key]

\* update_temperatures, lines 355-365: the fault flag after the batch
FaultAfterBatch(valid) ==
    IF CRITICAL_SENSOR_KEYS = {}
    THEN FALSE
    ELSE ~(\A key \in CRITICAL_SENSOR_KEYS : valid[key])

\* update_temperatures, line 368: the lockout is evaluated again when the
\* batch held a valid ambient reading, or when the stored fault flag differs
\* from new_fault_state, which line 364 has just made equal
ReevaluateLockout(batch, fault_after, new_fault_state) ==
    ambient_temp_updated(batch) \/ (fault_after /= new_fault_state)

\* every change of the cached condenser command stamps the time
set_relay_stateStampAnyChange(relays, last_off, device, value, n) ==
    LET d == IF device = "chiller" THEN "condenser" ELSE device
    IN  IF d \notin {"pump", "condenser"}
        THEN [ relays |-> relays, last_off |-> last_off ]
        ELSE IF relays[d] /= value
        THEN [ relays |-> [relays EXCEPT ![d] = value],
               last_off |-> IF d = "condenser" THEN n ELSE last_off ]
        ELSE [ relays |-> relays, last_off |-> last_off ]

\* set_relay_state: the new cache and condenser_last_off_time
set_relay_state(relays, last_off, device, value, n) ==
    LET d == IF device = "chiller" THEN "condenser" ELSE device
    IN  IF d \notin {"pump", "condenser"}
        THEN [ relays |-> relays, last_off |-> last_off ]
        ELSE IF relays[d] /= value
        THEN [ relays |-> [relays EXCEPT ![d] = value],
               last_off |-> IF d = "condenser" /\ relays[d] = TRUE /\ value = FALSE
                            THEN n ELSE last_off ]
        ELSE [ relays |-> relays, last_off |-> last_off ]

(***************************************************************************)
(* state.py: persistence.  A file is a record: exists says whether the     *)
(* file is there, parses whether json.load returns an object from it, and  *)
(* every key of its JSON object is a field.  A numeric                     *)
(* field is <<v>>, or the empty tuple when the key is absent or not a      *)
(* number; an override field is the JSON value, None for null or absent.   *)
(***************************************************************************)
MissingSetpointFile == [ exists |-> FALSE, parses |-> FALSE, setpoint |-> NoReading ]

MissingParamsFile ==
    [ exists |-> FALSE, parses |-> FALSE, differential |-> NoReading,
      ambient_lockout_setpoint |-> NoReading ]

MissingOverridesFile ==
    [ exists |-> FALSE, parses |-> FALSE, manual_pump_override |-> None,
      manual_chiller_override |-> None, manual_cooling_override |-> None ]

NoFiles ==
    [ setpoint |-> MissingSetpointFile,
      operational_params |-> MissingParamsFile,
      overrides |-> MissingOverridesFile ]

\* os.path.exists holds, and json.load and the first data.get raise nothing
Readable(f) == f.exists /\ f.parses

\* the text of a file that is there is used whether or not it parses
load_setpointUnparsed(config, fs) ==
    IF fs.setpoint.exists /\ fs.setpoint.setpoint /= NoReading
    THEN Value(fs.setpoint.setpoint)
    ELSE config.fallback_setpoint_f

\* load_setpoint: the setpoint after loading, starting from FALLBACK_SETPOINT_F
load_setpoint(config, fs) ==
    IF Readable(fs.setpoint) /\ fs.setpoint.setpoint /= NoReading
    THEN Value(fs.setpoint.setpoint)
    ELSE config.fallback_setpoint_f

\* load_operational_params: the differential and the lockout setpoint
load_operational_params(config, fs) ==
    LET f == fs.operational_params
    IN [ differential |->
           IF Readable(f) /\ f.differential /= NoReading
           THEN Value(f.differential) ELSE config.initial_differential_f,
         ambient_lockout_setpoint |->
           IF Readable(f) /\ f.ambient_lockout_setpoint /= NoReading
           THEN Value(f.ambient_lockout_setpoint)
           ELSE config.initial_ambient_lockout_setpoint_f ]

\* load_overrides: the three overrides, taken from the file as they are
load_overrides(fs) ==
    LET f == fs.overrides
    IN [ pump |-> IF Readable(f) THEN f.manual_pump_override ELSE None,
         chiller |-> IF Readable(f) THEN f.manual_chiller_override ELSE None,
         cooling |-> IF Readable(f) THEN f.manual_cooling_override ELSE None ]

\* a file that is there is never written again
save_setpointKeepExisting(fs, write_ok, value) ==
    IF write_ok /\ ~fs.setpoint.exists
    THEN [fs EXCEPT !.setpoint = [ exists |-> TRUE, parses |-> TRUE, setpoint |-> Reading(value) ]]
    ELSE fs

\* save_setpoint: open() fails and the file stays as it was, or the
\* in-memory value is written
save_setpoint(fs, write_ok, value) ==
    IF write_ok
    THEN [fs EXCEPT !.setpoint = [ exists |-> TRUE, parses |-> TRUE, setpoint |-> Reading(value) ]]
    ELSE fs

\* the lockout setpoint is left out of the saved record
save_operational_paramsDifferentialOnly(fs, write_ok, diff, lockout) ==
    IF write_ok
    THEN [fs EXCEPT !.operational_params =
            [ exists |-> TRUE, parses |-> TRUE, differential |-> Reading(diff),
              ambient_lockout_setpoint |-> NoReading ]]
    ELSE fs

\* save_operational_params: both in-memory values are written
save_operational_params(fs, write_ok, diff, lockout) ==
    IF write_ok
    THEN [fs EXCEPT !.operational_params =
            [ exists |-> TRUE, parses |-> TRUE, differential |-> Reading(diff),
              ambient_lockout_setpoint |-> Reading(lockout) ]]
    ELSE fs

\* save_overrides: the three in-memory overrides are written
save_overrides(fs, write_ok, pump, chiller, cooling) ==
    IF write_ok
    THEN [fs EXCEPT !.overrides =
            [ exists |-> TRUE, parses |-> TRUE, manual_pump_override |-> pump,
              manual_chiller_override |-> chiller,
              manual_cooling_override |-> cooling ]]
    ELSE fs

\* effects of the last operation, kept where a property needs them
\* (effects.recording): the argument it was given, the files it opened for
\* writing and the relays it actuated
NoArg == << >>

Effects(argument, writes, actuated) ==
    IF effects.recording
    THEN [ recording |-> TRUE, arg |-> argument, writes |-> writes, actuated |-> actuated ]
    ELSE effects

NoEffects == Effects(NoArg, {}, {})

EffectsAtStart(recording) ==
    [ recording |-> recording, arg |-> NoArg, writes |-> {}, actuated |-> {} ]

(***************************************************************************)
(* controller.py: control_loop                                             *)
(***************************************************************************)
\* _set_gpio_state, when called: the pin is driven unless GPIO is not set up
_set_gpio_state(pins, device, desired_state_on, called) ==
    IF called /\ pins.initialized
    THEN [pins EXCEPT ![device] = desired_state_on]
    ELSE pins

\* the pins are released and the relays are left as they are
cleanup_gpioNoOff(pins) ==
    IF pins.initialized
    THEN [pins EXCEPT !.initialized = FALSE]
    ELSE pins

\* cleanup_gpio: both relays are turned Off, then the pins are released
cleanup_gpio(pins) ==
    IF pins.initialized
    THEN [ initialized |-> FALSE, pump |-> FALSE, condenser |-> FALSE ]
    ELSE pins

\* in auto mode the pump needs a healthy critical sensor besides the demand
PumpDecisionUnlessFault(manual_pump, demand_for_pump) ==
    IF manual_pump = "on" THEN TRUE
    ELSE IF manual_pump = "off" THEN FALSE
    ELSE demand_for_pump /\ ~critical_sensor_fault

\* lines 139-156
PumpDecision(manual_pump, demand_for_pump) ==
    IF manual_pump = "on" THEN TRUE
    ELSE IF manual_pump = "off" THEN FALSE
    ELSE demand_for_pump

\* a manual pump override leaves the pending post-purge in place
PurgeAfterPumpDecisionKept(manual_pump, end_time) == end_time

\* lines 140-149: a manual pump override clears the pending post-purge
PurgeAfterPumpDecision(manual_pump, end_time) ==
    IF manual_pump \in {"on", "off"} THEN 0 ELSE end_time

\* the minimum off time must be exceeded, not merely reached
min_off_time_metStrict(n, last_off) == (n - last_off) > CONDENSER_MIN_OFF_TIME_SEC

\* lines 203-204: time_since_last_off >= CONDENSER_MIN_OFF_TIME_SEC
min_off_time_met(n, last_off) == (n - last_off) >= CONDENSER_MIN_OFF_TIME_SEC

\* the On threshold alone decides, the minimum off time is not consulted
AutoDecisionWhenOffNoTimer(supply_temp_f, turn_on_threshold, n, last_off) ==
    Value(supply_temp_f) >= turn_on_threshold

\* lines 200-212: the condenser is commanded Off
AutoDecisionWhenOff(supply_temp_f, turn_on_threshold, n, last_off) ==
    IF Value(supply_temp_f) >= turn_on_threshold
    THEN min_off_time_met(n, last_off)
    ELSE FALSE

\* the condenser is kept On at the setpoint itself
AutoDecisionWhenOnStrict(supply_temp_f, turn_off_threshold) ==
    IF Value(supply_temp_f) < turn_off_threshold THEN FALSE ELSE TRUE

\* lines 193-199: the condenser is commanded On
AutoDecisionWhenOn(supply_temp_f, turn_off_threshold) ==
    IF Value(supply_temp_f) <= turn_off_threshold THEN FALSE ELSE TRUE

\* a fault or a missing reading holds the last commanded state
AutoCondenserDecisionHoldOnFault(fault, supply_temp_f, running, n, last_off) ==
    IF fault THEN running
    ELSE IF supply_temp_f = NoReading THEN running
    ELSE IF running
         THEN Value(supply_temp_f) > setpoint
         ELSE /\ Value(supply_temp_f) >= setpoint + differential
              /\ (n - last_off) >= CONDENSER_MIN_OFF_TIME_SEC

\* lines 177-212: auto mode for the condenser
AutoCondenserDecision(fault, supply_temp_f, running, n, last_off) ==
    IF fault THEN FALSE
    ELSE IF supply_temp_f = NoReading THEN FALSE
    ELSE IF running
         THEN AutoDecisionWhenOn(supply_temp_f, setpoint)
         ELSE AutoDecisionWhenOff(supply_temp_f, setpoint + differential, n, last_off)

\* a manual On is ignored: only a manual Off overrides the auto decision
condenser_override_decisionOffOnly(manual_condenser, auto_decision) ==
    IF manual_condenser = "off" THEN FALSE ELSE auto_decision

\* lines 168-177: the manual override of the condenser, then auto mode
condenser_override_decision(manual_condenser, auto_decision) ==
    IF manual_condenser = "on" THEN TRUE
    ELSE IF manual_condenser = "off" THEN FALSE
    ELSE auto_decision

\* the manual override is consulted before the pump decision
CondenserDecisionOverrideFirst(pump_on_decision, manual_condenser, fault, supply_temp_f, running, n, last_off) ==
    IF manual_condenser = "on" THEN TRUE
    ELSE IF manual_condenser = "off" THEN FALSE
    ELSE IF ~pump_on_decision THEN FALSE
    ELSE IF fault \/ supply_temp_f = NoReading THEN FALSE
    ELSE IF running
         THEN Value(supply_temp_f) > setpoint
         ELSE /\ Value(supply_temp_f) >= setpoint + differential
              /\ (n - last_off) >= CONDENSER_MIN_OFF_TIME_SEC

\* lines 165-212
CondenserDecision(pump_on_decision, manual_condenser, fault, supply_temp_f, running, n, last_off) ==
    IF ~pump_on_decision THEN FALSE
    ELSE condenser_override_decision(
             manual_condenser,
             AutoCondenserDecision(fault, supply_temp_f, running, n, last_off))

(***************************************************************************)
(* History of the inputs, kept beside the program state so that a claim    *)
(* about what the inputs have been can be stated.                          *)
(*   call_off_at: the time of the tick at which is_ahu_calling last went   *)
(*                from true to false (0: never)                            *)
(*   cond_off_at: the time of the tick that last changed the cached        *)
(*                condenser command from On to Off (0: never)              *)
(*   run_kind, run_since: the side of the lockout band ("below", "above")  *)
(*                on which every ambient reading submitted since run_since *)
(*                has been; "none" after a reading in the deadband or an   *)
(*                unavailable one                                          *)
(*   evaluated:   the ambient reading update_ambient_lockout_status last   *)
(*                ran on (the empty tuple: none, or an unavailable one)    *)
(*   unsaved:     the persisted fields whose value in memory no write has  *)
(*                stored: the write of the setter failed, and so has every *)
(*                later write of the same file                             *)
(*   outcomes:    the lockout fields after two calls in progress, run one  *)
(*                after the other in either order                          *)
(*   completed:   the cached (pump, condenser) pairs at construction and   *)
(*                at the end of every iteration run statement by statement *)
(***************************************************************************)
HistAtStart ==
    [ call_off_at |-> 0, cond_off_at |-> 0, run_kind |-> "none", run_since |-> 0,
      evaluated |-> NoReading, unsaved |-> {}, outcomes |-> {},
      completed |-> { <<FALSE, FALSE>> } ]

AmbientSide(reading, lockout_target) ==
    IF reading = NoReading THEN "none"
    ELSE IF Value(reading) < lockout_target THEN "below"
    ELSE IF Value(reading) > lockout_target + AMBIENT_LOCKOUT_DEADBAND_F THEN "above"
    ELSE "none"

\* the fields that one write of the file of the field stores
FieldsSavedWith(field) ==
    IF field = "setpoint" THEN {"setpoint"}
    ELSE IF field \in {"differential", "ambient_lockout_setpoint"}
    THEN {"differential", "ambient_lockout_setpoint"}
    ELSE {"pump", "chiller", "cooling"}

HistAfterSave(field, write_ok) ==
    [hist EXCEPT !.unsaved = IF write_ok THEN @ \ FieldsSavedWith(field)
                                         ELSE @ \cup {field}]

HistAfterBatch(batch) ==
    IF "ambient" \notin DOMAIN batch THEN hist
    ELSE LET side == AmbientSide(batch["ambient"], ambient_lockout_setpoint)
         IN  IF side = "none"
             THEN [hist EXCEPT !.run_kind = "none", !.run_since = 0]
             ELSE IF side = hist.run_kind THEN hist
             ELSE [hist EXCEPT !.run_kind = side, !.run_since = now]

(***************************************************************************)
(* Inputs                                                                  *)
(***************************************************************************)
\* supply readings around setpoint 45 and the On threshold 48
SupplyTemps == {45, 46, 48}
\* ambient readings around lockout setpoint 50 and the release target 55
AmbientTemps == {49, 50, 56}

ReadingsOf(temps) == {NoReading} \cup { Reading(v) : v \in temps }

\* read_all_configured_sensors: one entry for every configured key
SensorBatches(supplyTemps, ambientTemps) ==
    { [supply |-> s, ambient |-> a] : s \in supplyTemps, a \in ambientTemps }

\* the supply probe varies and fails, the ambient probe reads inside the deadband
SupplyBatches == SensorBatches(ReadingsOf(SupplyTemps), {Reading(50)})
\* the supply probe reads the On threshold or fails
SupplyFaultBatches == SensorBatches({NoReading, Reading(48)}, {Reading(50)})
\* the ambient probe varies and fails, the supply probe reads the On threshold
AmbientBatches == SensorBatches({Reading(48)}, ReadingsOf(AmbientTemps))

Devices == {"pump", "chiller", "cooling"}
OverrideValues == {"on", "off", None}

(***************************************************************************)
(* State after SystemState.__init__ and _setup_gpio                        *)
(***************************************************************************)
\* no operation is in progress in any thread
IdleThreads ==
    [ sensor |-> [ pc |-> "idle" ], command |-> [ pc |-> "idle" ],
      control |-> [ pc |-> "idle" ], publisher |-> [ pc |-> "idle" ] ]

\* _setup_gpio, lines 38-43: both pins are outputs at the Off level
GpioAfterSetup == [ initialized |-> TRUE, pump |-> FALSE, condenser |-> FALSE ]

\* the files from which load_operational_params reads loaded_differential
FilesWithDifferential(config, loaded_differential) ==
    IF loaded_differential = config.initial_differential_f
    THEN NoFiles
    ELSE [NoFiles EXCEPT !.operational_params =
            [ exists |-> TRUE, parses |-> TRUE, differential |-> Reading(loaded_differential),
              ambient_lockout_setpoint |-> NoReading ]]

\* __init__, lines 75-85: the fault flag at construction
FaultAtInit(config) ==
    IF config.sensor_ids = {}
    THEN TRUE
    ELSE \E key \in config.critical_sensors : key \in config.sensor_ids

\* the condenser counts as never having been switched Off
LastOffAtInitZero(n) == 0

\* __init__, line 44: condenser_last_off_time = time.time()
LastOffAtInit(n) == n

\* SystemState.__init__ with the files fs, at time StartTime
StateAfterInit(config, fs, recording) ==
    /\ cfg = config
    /\ now = StartTime
    /\ op = "init"
    /\ setpoint = load_setpoint(config, fs)
    /\ differential = load_operational_params(config, fs).differential
    /\ ambient_lockout_setpoint = load_operational_params(config, fs).ambient_lockout_setpoint
    /\ manual_pump_override = load_overrides(fs).pump
    /\ manual_chiller_override = load_overrides(fs).chiller
    /\ manual_cooling_override = load_overrides(fs).cooling
    /\ last_ahu_call_time = 0
    /\ pump_post_purge_end_time = 0
    /\ condenser_last_off_time = LastOffAtInit(StartTime)
    /\ last_mqtt_message_time = StartTime
    /\ mqtt_comms_lost = FALSE
    /\ critical_sensor_fault = FaultAtInit(config)
    /\ is_ahu_calling = FALSE
    /\ ambient_lockout_active = FALSE
    /\ ambient_temp_below_lockout_setpoint_since = 0
    /\ ambient_temp_above_lockout_release_since = 0
    /\ sensor_temps = [k \in AllKeys |-> NoReading]
    /\ sensor_readings_valid = [k \in AllKeys |-> FALSE]
    /\ relay_states = [pump |-> FALSE, condenser |-> FALSE]
    /\ tick = [ demand_for_pump |-> FALSE, pump_on_decision |-> FALSE,
                condenser_on_decision |-> FALSE,
                is_chiller_currently_running_hw |-> FALSE ]
    /\ sensor_loop_alive = TRUE
    /\ hist = HistAtStart
    /\ files = fs
    /\ effects = EffectsAtStart(recording)
    /\ gpio = GpioAfterSetup
    /\ stop_event = FALSE
    /\ controller_thread = "loop"
    /\ threads = IdleThreads

InitState(config, loaded_differential) ==
    StateAfterInit(config, FilesWithDifferential(config, loaded_differential), FALSE)

\* the scaled configuration, with "supply" or "ambient" as the critical sensor
ScaledConfigs ==
    { [ScaledConfig EXCEPT !.critical_sensors = c] : c \in {{"supply"}, {"ambient"}} }

\* operational_params.json holds a differential (load_operational_params,
\* lines 131-133) or is missing (line 160)
PersistedDifferentials == {1, INITIAL_DIFFERENTIAL_F_DEFAULT}

Init ==
    \E config \in ScaledConfigs, loaded_differential \in PersistedDifferentials :
        InitState(config, loaded_differential)

InitScaled == InitState(ScaledConfig, ScaledConfig.initial_differential_f)

(***************************************************************************)
(* Operations                                                              *)
(***************************************************************************)
\* time.sleep(1) in the loops: one second passes
Advance(limit) ==
    /\ now < StartTime + limit
    /\ now' = now + 1
    /\ op' = "sleep"
    /\ effects' = NoEffects
    /\ UNCHANGED <<cfg, paramVars, overrideVars, callVars, mqttVars, lockoutVars,
                   sensorVars, relayVars, tick, hist, files, shutdownVars, threads>>

\* a lost link forces the pump, and with it the condenser, Off
TickOutcomeFailsafeOff(comms_lost, last_message) ==
    LET lost == comms_lost_after(now, comms_lost, last_message)
        pump == ~lost /\ PumpDecision(get_override("pump"),
                                      check_for_call_timeout(now).overall_pump_demand)
    IN  [ mqtt_comms_lost |-> lost,
          pump_on_decision |-> pump,
          condenser_on_decision |->
              CondenserDecision(pump, get_override("chiller"), critical_sensor_fault,
                                get_sensor_temp("supply"), relay_states["condenser"],
                                now, condenser_last_off_time) ]

\* lines 121-212 of an iteration run on the current state with the two
\* fail-safe fields holding comms_lost and last_message: the new
\* mqtt_comms_lost and the two decisions
TickOutcome(comms_lost, last_message) ==
    LET lost == comms_lost_after(now, comms_lost, last_message)
        pump == PumpDecision(get_override("pump"),
                             check_for_call_timeout(now).overall_pump_demand)
    IN  [ mqtt_comms_lost |-> lost,
          pump_on_decision |-> pump,
          condenser_on_decision |->
              CondenserDecision(pump, get_override("chiller"), critical_sensor_fault,
                                get_sensor_temp("supply"), relay_states["condenser"],
                                now, condenser_last_off_time) ]

\* the two decisions of a tick run on the current state
Decisions(outcome) == <<outcome.pump_on_decision, outcome.condenser_on_decision>>

\* the output is driven at every iteration
decision_differsAlways(cached_state, decision) == TRUE

\* lines 219 and 225: the decision is not the cached commanded state
decision_differs(cached_state, decision) == cached_state /= decision

\* line 115: the loop condition is evaluated and the iteration is entered
EnterTick ==
    /\ controller_thread = "loop"
    /\ threads.control.pc = "idle"
    /\ ~stop_event
    /\ threads' = [threads EXCEPT !.control = [ pc |-> "tick" ]]
    /\ op' = "enter_tick"
    /\ effects' = NoEffects
    /\ UNCHANGED <<cfg, now, paramVars, overrideVars, callVars, mqttVars, lockoutVars,
                   sensorVars, relayVars, tick, hist, files, shutdownVars>>

\* one iteration of control_loop, lines 115-229: the loop condition and the
\* body, or the body of an iteration already entered
ControlTick ==
    LET n == now
        call == check_for_call_timeout(n)
        supply_temp_f == get_sensor_temp("supply")
        demand_for_pump == call.overall_pump_demand
        outcome == TickOutcome(mqtt_comms_lost, last_mqtt_message_time)
        pump_on_decision == outcome.pump_on_decision
        running == relay_states["condenser"]
        condenser_on_decision == outcome.condenser_on_decision
        r1 == IF decision_differs(relay_states["pump"], pump_on_decision)
              THEN set_relay_state(relay_states, condenser_last_off_time,
                                   "pump", pump_on_decision, n)
              ELSE [ relays |-> relay_states, last_off |-> condenser_last_off_time ]
        r2 == IF decision_differs(r1.relays["condenser"], condenser_on_decision)
              THEN set_relay_state(r1.relays, r1.last_off,
                                   "condenser", condenser_on_decision, n)
              ELSE r1
        actuated == { d \in {"pump", "condenser"} :
                        \/ /\ d = "pump"
                           /\ decision_differs(relay_states["pump"], pump_on_decision)
                        \/ /\ d = "condenser"
                           /\ decision_differs(r1.relays["condenser"],
                                               condenser_on_decision) }
    IN  /\ controller_thread = "loop"
        /\ threads.control.pc = "tick" \/ (threads.control.pc = "idle" /\ ~stop_event)
        /\ threads' = [threads EXCEPT !.control = [ pc |-> "idle" ]]
        /\ mqtt_comms_lost' = outcome.mqtt_comms_lost
        /\ is_ahu_calling' = call.is_ahu_calling
        /\ pump_post_purge_end_time' =
             PurgeAfterPumpDecision(get_override("pump"), call.pump_post_purge_end_time)
        /\ relay_states' = r2.relays
        /\ condenser_last_off_time' = r2.last_off
        /\ tick' = [ demand_for_pump |-> demand_for_pump,
                     pump_on_decision |-> pump_on_decision,
                     condenser_on_decision |-> condenser_on_decision,
                     is_chiller_currently_running_hw |-> running ]
        /\ hist' = [hist EXCEPT
                     !.call_off_at = IF is_ahu_calling /\ ~call.is_ahu_calling
                                     THEN n ELSE @,
                     !.cond_off_at = IF running /\ ~r2.relays["condenser"]
                                     THEN n ELSE @]
        /\ op' = "control_loop"
        /\ effects' = Effects(NoArg, {}, actuated)
        /\ gpio' = _set_gpio_state(_set_gpio_state(gpio, "pump", pump_on_decision,
                                                    "pump" \in actuated),
                                    "condenser", condenser_on_decision,
                                    "condenser" \in actuated)
        /\ UNCHANGED <<cfg, now, paramVars, overrideVars, last_ahu_call_time,
                       last_mqtt_message_time, lockoutVars, sensorVars, files,
                       stop_event, controller_thread>>

\* update_temperatures(temps_by_key), called by sensor_loop
update_temperatures(batch) ==
    LET valid == BatchValid(batch)
        new_fault_state == FaultAfterBatch(valid)
        raises == CRITICAL_SENSOR_KEYS = {} /\ ~ambient_temp_updated(batch)
        lk == LockoutStatus(now,
                            IF valid["ambient"] THEN BatchTemps(batch)["ambient"]
                                                ELSE NoReading,
                            ambient_lockout_active,
                            ambient_temp_below_lockout_setpoint_since,
                            ambient_temp_above_lockout_release_since,
                            ambient_lockout_setpoint)
    IN  /\ sensor_loop_alive
        /\ sensor_temps' = BatchTemps(batch)
        /\ sensor_readings_valid' = valid
        /\ critical_sensor_fault' = new_fault_state
        /\ sensor_loop_alive' = ~raises
        /\ IF ~raises /\ ReevaluateLockout(batch, new_fault_state, new_fault_state)
           THEN /\ ambient_lockout_active' = lk.active
                /\ ambient_temp_below_lockout_setpoint_since' = lk.below
                /\ ambient_temp_above_lockout_release_since' = lk.above
           ELSE UNCHANGED lockoutVars
        /\ hist' = [HistAfterBatch(batch) EXCEPT
                     !.evaluated =
                        IF ~raises /\ ReevaluateLockout(batch, new_fault_state, new_fault_state)
                        THEN BatchTemps(batch)["ambient"] ELSE @]
        /\ op' = "update_temperatures"
        /\ effects' = Effects(<<batch>>, {}, {})
        /\ UNCHANGED <<cfg, now, paramVars, overrideVars, callVars, mqttVars,
                       relayVars, tick, files, shutdownVars, threads>>

UpdateSupply == \E batch \in SupplyBatches : update_temperatures(batch)

UpdateSupplyFault == \E batch \in SupplyFaultBatches : update_temperatures(batch)

UpdateAmbient == \E batch \in AmbientBatches : update_temperatures(batch)

\* the setter applies and saves the value whether or not it is new
value_changedAlways(old_value, new_value) == TRUE

\* the guard of every setter, lines 214, 227, 246 and 276
value_changed(old_value, new_value) == old_value /= new_value

\* float(value): a payload is <<v>> when it parses to the number v, and the
\* empty tuple when float() raises ValueError or TypeError
float_raises(value) == value = NoReading

\* set_setpoint(value)
set_setpoint(value, write_ok) ==
    LET changed == ~float_raises(value) /\ value_changed(setpoint, Value(value))
    IN  /\ IF changed
           THEN /\ setpoint' = Value(value)
                /\ files' = save_setpoint(files, write_ok, Value(value))
                /\ hist' = HistAfterSave("setpoint", write_ok)
           ELSE UNCHANGED <<setpoint, files, hist>>
        /\ op' = "set_setpoint"
        /\ effects' = Effects(value, IF changed THEN {"setpoint"} ELSE {}, {})
        /\ UNCHANGED <<cfg, now, differential, ambient_lockout_setpoint, overrideVars,
                       callVars, mqttVars, lockoutVars, sensorVars, relayVars, tick,
                       shutdownVars, threads>>

\* set_differential(val)
set_differential(val, write_ok) ==
    LET changed == ~float_raises(val) /\ value_changed(differential, Value(val))
    IN  /\ IF changed
           THEN /\ differential' = Value(val)
                /\ files' = save_operational_params(files, write_ok, Value(val),
                                                    ambient_lockout_setpoint)
                /\ hist' = HistAfterSave("differential", write_ok)
           ELSE UNCHANGED <<differential, files, hist>>
        /\ op' = "set_differential"
        /\ effects' = Effects(val, IF changed THEN {"operational_params"} ELSE {}, {})
        /\ UNCHANGED <<cfg, now, setpoint, ambient_lockout_setpoint, overrideVars,
                       callVars, mqttVars, lockoutVars, sensorVars, relayVars, tick,
                       shutdownVars, threads>>

\* the timestamps counted under the old setpoint are carried over
reset_debounce_timersKept(below_since, above_since) ==
    [ below |-> below_since, above |-> above_since ]

\* lines 252-253: both debounce timestamps are cleared before the evaluation
reset_debounce_timers(below_since, above_since) == [ below |-> 0, above |-> 0 ]

\* set_ambient_lockout_setpoint(value): a new value is saved, both debounce
\* timestamps are cleared and the lockout is evaluated again
set_ambient_lockout_setpoint(value, write_ok) ==
    LET changed == ~float_raises(value)
                   /\ value_changed(ambient_lockout_setpoint, Value(value))
        reset == reset_debounce_timers(ambient_temp_below_lockout_setpoint_since,
                                       ambient_temp_above_lockout_release_since)
        lk == LockoutStatus(now, get_sensor_temp("ambient"), ambient_lockout_active,
                            reset.below, reset.above, Value(value))
        side == AmbientSide(get_sensor_temp("ambient"), Value(value))
    IN  /\ IF changed
           THEN /\ ambient_lockout_setpoint' = Value(value)
                /\ files' = save_operational_params(files, write_ok, differential,
                                                    Value(value))
                /\ ambient_lockout_active' = lk.active
                /\ ambient_temp_below_lockout_setpoint_since' = lk.below
                /\ ambient_temp_above_lockout_release_since' = lk.above
                /\ hist' = [HistAfterSave("ambient_lockout_setpoint", write_ok) EXCEPT
                             !.evaluated = get_sensor_temp("ambient"),
                             !.run_kind = side,
                             !.run_since = IF side = "none" THEN 0 ELSE now]
           ELSE UNCHANGED <<ambient_lockout_setpoint, files, lockoutVars, hist>>
        /\ op' = "set_ambient_lockout_setpoint"
        /\ effects' = Effects(value, IF changed THEN {"operational_params"} ELSE {}, {})
        /\ UNCHANGED <<cfg, now, setpoint, differential, overrideVars, callVars,
                       mqttVars, sensorVars, relayVars, tick, shutdownVars, threads>>

\* the characters of the payloads that occur, one string per character
Spelling(value) ==
    CASE value = "on" -> << "o", "n" >>
      [] value = "off" -> << "o", "f", "f" >>
      [] value = "auto" -> << "a", "u", "t", "o" >>
      [] value = "garbage" -> << "g", "a", "r", "b", "a", "g", "e" >>
      [] value = " ON " -> << " ", "O", "N", " " >>
      [] value = "Off" -> << "O", "f", "f" >>
      [] value = "o n" -> << "o", " ", "n" >>

\* isinstance(value, str), line 268: None is not a string
is_str(value) == value /= None

Whitespace == {" "}

RECURSIVE lstrip(_)
lstrip(chars) ==
    IF chars = << >> THEN chars
    ELSE IF Head(chars) \in Whitespace THEN lstrip(Tail(chars))
    ELSE chars

RECURSIVE rstrip(_)
rstrip(chars) ==
    IF chars = << >> THEN chars
    ELSE IF chars[Len(chars)] \in Whitespace THEN rstrip(SubSeq(chars, 1, Len(chars) - 1))
    ELSE chars

\* str.strip(): leading and trailing whitespace is removed
strip(chars) == rstrip(lstrip(chars))

\* str.lower() on the capitals that occur
lower_char(c) ==
    CASE c = "O" -> "o"
      [] c = "N" -> "n"
      [] c = "F" -> "f"
      [] OTHER -> c

lower(chars) == [ i \in 1..Len(chars) |-> lower_char(chars[i]) ]

\* a string that is neither spelling switches the device Off
parsed_valueUnrecognisedOff(value) ==
    IF ~is_str(value) THEN None
    ELSE LET val_lower == lower(strip(Spelling(value)))
         IN  IF val_lower = Spelling("on") THEN "on" ELSE "off"

\* set_override, lines 267-273
parsed_value(value) ==
    IF ~is_str(value) THEN None
    ELSE LET val_lower == lower(strip(Spelling(value)))
         IN  IF val_lower = Spelling("on") THEN "on"
             ELSE IF val_lower = Spelling("off") THEN "off"
             ELSE None

\* set_override(device, value)
set_override(device, value, write_ok) ==
    LET changed == /\ device \in {"pump", "chiller", "cooling"}
                   /\ value_changed(get_override(device), parsed_value(value))
        pump == IF device = "pump" THEN parsed_value(value) ELSE manual_pump_override
        chiller == IF device = "chiller" THEN parsed_value(value) ELSE manual_chiller_override
        cooling == IF device = "cooling" THEN parsed_value(value) ELSE manual_cooling_override
    IN  /\ IF changed
           THEN /\ manual_pump_override' = pump
                /\ manual_chiller_override' = chiller
                /\ manual_cooling_override' = cooling
                /\ files' = save_overrides(files, write_ok, pump, chiller, cooling)
                /\ hist' = HistAfterSave(device, write_ok)
           ELSE UNCHANGED <<overrideVars, files, hist>>
        /\ op' = "set_override"
        /\ effects' = Effects(<<device, value>>,
                              IF changed THEN {"overrides"} ELSE {}, {})
        /\ UNCHANGED <<cfg, now, paramVars, callVars, mqttVars, lockoutVars,
                       sensorVars, relayVars, tick, shutdownVars, threads>>

SetOverride ==
    \E device \in Devices, value \in OverrideValues : set_override(device, value, TRUE)

\* the cooling override moves between Off and Auto
SetCoolingNotOn == \E value \in {"off", None} : set_override("cooling", value, TRUE)

\* the pump override moves between On and Auto
SetPumpOverride == \E value \in {"on", None} : set_override("pump", value, TRUE)

SetRelayOverride ==
    \E device \in {"pump", "chiller"}, value \in OverrideValues :
        set_override(device, value, TRUE)

\* update_ahu_call(is_manual_cooling=False)
update_ahu_call ==
    /\ last_ahu_call_time' = now
    /\ pump_post_purge_end_time' = 0
    /\ op' = "update_ahu_call"
    /\ effects' = NoEffects
    /\ UNCHANGED <<cfg, now, paramVars, overrideVars, is_ahu_calling, mqttVars,
                   lockoutVars, sensorVars, relayVars, tick, hist, files,
                   shutdownVars, threads>>

\* the process is started again: SystemState.__init__ reads the files
Restart ==
    /\ op' = "restart"
    /\ setpoint' = load_setpoint(cfg, files)
    /\ differential' = load_operational_params(cfg, files).differential
    /\ ambient_lockout_setpoint' = load_operational_params(cfg, files).ambient_lockout_setpoint
    /\ manual_pump_override' = load_overrides(files).pump
    /\ manual_chiller_override' = load_overrides(files).chiller
    /\ manual_cooling_override' = load_overrides(files).cooling
    /\ last_ahu_call_time' = 0
    /\ pump_post_purge_end_time' = 0
    /\ condenser_last_off_time' = now
    /\ last_mqtt_message_time' = now
    /\ mqtt_comms_lost' = FALSE
    /\ critical_sensor_fault' = FaultAtInit(cfg)
    /\ is_ahu_calling' = FALSE
    /\ ambient_lockout_active' = FALSE
    /\ ambient_temp_below_lockout_setpoint_since' = 0
    /\ ambient_temp_above_lockout_release_since' = 0
    /\ sensor_temps' = [k \in AllKeys |-> NoReading]
    /\ sensor_readings_valid' = [k \in AllKeys |-> FALSE]
    /\ relay_states' = [pump |-> FALSE, condenser |-> FALSE]
    /\ tick' = [ demand_for_pump |-> FALSE, pump_on_decision |-> FALSE,
                 condenser_on_decision |-> FALSE,
                 is_chiller_currently_running_hw |-> FALSE ]
    /\ sensor_loop_alive' = TRUE
    /\ hist' = [HistAtStart EXCEPT !.unsaved = hist.unsaved]
    /\ effects' = NoEffects
    /\ gpio' = GpioAfterSetup
    /\ stop_event' = FALSE
    /\ controller_thread' = "loop"
    /\ threads' = IdleThreads
    /\ UNCHANGED <<cfg, now, files>>

\* update_mqtt_timestamp: a message has arrived or the broker has connected
update_mqtt_timestamp ==
    /\ last_mqtt_message_time' = now
    /\ mqtt_comms_lost' = FALSE
    /\ op' = "update_mqtt_timestamp"
    /\ effects' = NoEffects
    /\ UNCHANGED <<cfg, now, paramVars, overrideVars, callVars, lockoutVars,
                   sensorVars, relayVars, tick, hist, files, shutdownVars, threads>>

\* main.py, line 126: the shutdown signal is set
SetStop ==
    /\ ~stop_event
    /\ stop_event' = TRUE
    /\ op' = "stop"
    /\ effects' = NoEffects
    /\ UNCHANGED <<cfg, now, paramVars, overrideVars, callVars, mqttVars, lockoutVars,
                   sensorVars, relayVars, tick, hist, files, gpio, controller_thread,
                   threads>>

\* control_loop, lines 115 and 250-253: the loop condition fails, the loop
\* is left and cleanup_gpio runs
ControlLoopExit ==
    /\ controller_thread = "loop"
    /\ threads.control.pc = "idle"
    /\ stop_event
    /\ controller_thread' = "done"
    /\ gpio' = cleanup_gpio(gpio)
    /\ op' = "cleanup_gpio"
    /\ effects' = Effects(NoArg, {}, {"pump", "condenser"})
    /\ UNCHANGED <<cfg, now, paramVars, overrideVars, callVars, mqttVars, lockoutVars,
                   sensorVars, relayVars, tick, hist, files, stop_event, threads>>

\* payloads of the numeric setters: two values each and an unparseable one
SetpointPayloads == ReadingsOf({44, FALLBACK_SETPOINT_F_DEFAULT})
DifferentialPayloads == ReadingsOf({1, INITIAL_DIFFERENTIAL_F_DEFAULT})
LockoutPayloads == ReadingsOf({45, INITIAL_AMBIENT_LOCKOUT_SETPOINT_F_DEFAULT})

SetSetpoint ==
    \E value \in SetpointPayloads, write_ok \in BOOLEAN : set_setpoint(value, write_ok)

SetDifferential ==
    \E val \in DifferentialPayloads, write_ok \in BOOLEAN : set_differential(val, write_ok)

SetLockoutSetpoint ==
    \E value \in LockoutPayloads, write_ok \in BOOLEAN :
        set_ambient_lockout_setpoint(value, write_ok)

\* the pump override moves between On and Auto, the cooling override
\* between Off and Auto
SetPersistedOverride ==
    \E write_ok \in BOOLEAN :
        \/ \E value \in {"on", None} : set_override("pump", value, write_ok)
        \/ \E value \in {"off", None} : set_override("cooling", value, write_ok)

\* the ambient probe reads below the lockout setpoints or above the release
\* targets
UpdateAmbientOutside ==
    \E batch \in SensorBatches({Reading(48)}, {Reading(44), Reading(56)}) :
        update_temperatures(batch)

AdvanceScaled == Advance(MaxTime)

AdvanceShort == Advance(MaxTimeShort)

AdvanceDefault == Advance(MaxTimeCall)

\* the one remote call of the scenario, at construction time
FirstCall ==
    /\ last_ahu_call_time = 0
    /\ now = StartTime
    /\ update_ahu_call

(***************************************************************************)
(* Specifications                                                          *)
(*   Spec:         the control loop under the pump and chiller overrides   *)
(*                 with a varying supply probe (scaled durations)          *)
(*   SpecOverride: the control loop under all three overrides with remote  *)
(*                 calls and a failing supply probe (scaled durations)     *)
(*   SpecLockout:  the control loop with remote calls and a varying        *)
(*                 ambient probe (scaled durations)                        *)
(*   SpecCall:     one remote call at construction time (default           *)
(*                 durations)                                              *)
(***************************************************************************)
Next ==
    \/ AdvanceScaled
    \/ ControlTick
    \/ UpdateSupply
    \/ SetRelayOverride

Spec == Init /\ [][Next]_vars

NextOverride ==
    \/ AdvanceShort
    \/ ControlTick
    \/ UpdateSupplyFault
    \/ SetOverride
    \/ update_ahu_call

SpecOverride == InitScaled /\ [][NextOverride]_vars

NextLockout ==
    \/ AdvanceScaled
    \/ ControlTick
    \/ UpdateAmbient
    \/ update_ahu_call

SpecLockout == InitScaled /\ [][NextLockout]_vars

InitCall == InitState(DEFAULT_CONFIG, DEFAULT_CONFIG.initial_differential_f)

\* the scaled configuration, no file, effects recorded
InitRecorded == StateAfterInit(ScaledConfig, NoFiles, TRUE)

\* the setters with every write succeeding
SetSetpointSaved == \E value \in SetpointPayloads : set_setpoint(value, TRUE)

SetDifferentialSaved == \E val \in DifferentialPayloads : set_differential(val, TRUE)

SetLockoutSetpointSaved ==
    \E value \in LockoutPayloads : set_ambient_lockout_setpoint(value, TRUE)

SetPersistedOverrideSaved ==
    \/ \E value \in {"on", None} : set_override("pump", value, TRUE)
    \/ \E value \in {"off", None} : set_override("cooling", value, TRUE)

NextSetters ==
    \/ SetSetpointSaved
    \/ SetDifferentialSaved
    \/ SetLockoutSetpointSaved
    \/ SetPersistedOverrideSaved
    \/ UpdateAmbientOutside
    \/ Restart

SpecSetters == InitRecorded /\ [][NextSetters]_vars

\* the scaled configuration, no file
InitNoFiles == StateAfterInit(ScaledConfig, NoFiles, FALSE)

\* setters whose writes succeed or fail, and restarts
NextRestart ==
    \/ SetSetpoint
    \/ SetDifferential
    \/ SetLockoutSetpoint
    \/ SetPersistedOverride
    \/ Restart

SpecRestart == InitNoFiles /\ [][NextRestart]_vars

\* the supply probe reads 45: at the On threshold for setpoint 44 and
\* differential 1, below it for the other settings
UpdateSupplyAtThreshold ==
    \E batch \in SensorBatches({Reading(45)}, {Reading(50)}) : update_temperatures(batch)

\* the setpoint moves between 44 and its default, the differential is
\* lowered to 1 and the pump is forced On; every write succeeds or fails
SetSetpointFinite ==
    \E value \in {44, FALLBACK_SETPOINT_F_DEFAULT}, write_ok \in BOOLEAN :
        set_setpoint(Reading(value), write_ok)

SetDifferentialLow == \E write_ok \in BOOLEAN : set_differential(Reading(1), write_ok)

SetPumpOn == \E write_ok \in BOOLEAN : set_override("pump", "on", write_ok)

\* the control loop with setters whose writes succeed or fail
NextWriteFailure ==
    \/ AdvanceShort
    \/ ControlTick
    \/ UpdateSupplyAtThreshold
    \/ SetSetpointFinite
    \/ SetDifferentialLow
    \/ SetPumpOn

SpecWriteFailure == InitRecorded /\ [][NextWriteFailure]_vars

\* a file that json.load rejects, whatever text it holds for the keys
Malformed(file) == [file EXCEPT !.exists = TRUE, !.parses = FALSE]

\* strings found in overrides.json: the three that save_overrides writes and
\* one that it never writes
OverrideFileValues == OverrideValues \cup {"auto"}

\* overrides.json at startup: missing, malformed, or an object
OverridesFiles ==
    {MissingOverridesFile, Malformed(MissingOverridesFile)}
    \cup { [ exists |-> TRUE, parses |-> TRUE, manual_pump_override |-> pump,
             manual_chiller_override |-> chiller, manual_cooling_override |-> cooling ] :
           pump \in OverrideFileValues, chiller \in OverrideFileValues,
           cooling \in {None, "auto"} }

\* setpoint.json at startup: missing, rejected by json.load, an object with
\* a number, or an object whose "setpoint" is absent or not a number
SetpointObjects ==
    { [ exists |-> TRUE, parses |-> TRUE, setpoint |-> v ] : v \in ReadingsOf({44}) }

SetpointFiles ==
    {MissingSetpointFile} \cup SetpointObjects \cup { Malformed(f) : f \in SetpointObjects }

\* operational_params.json at startup, likewise for each of its two keys
ParamsObjects ==
    { [ exists |-> TRUE, parses |-> TRUE, differential |-> d,
        ambient_lockout_setpoint |-> l ] :
      d \in ReadingsOf({1}), l \in ReadingsOf({45}) }

ParamsFiles ==
    {MissingParamsFile, Malformed([ exists |-> TRUE, parses |-> TRUE,
                                    differential |-> Reading(1),
                                    ambient_lockout_setpoint |-> Reading(45) ])}
    \cup ParamsObjects

\* overrides.json at startup: missing, rejected, or an object whose pump
\* override is a recognised value or another string
StartupOverridesFiles ==
    { f \in OverridesFiles : /\ f.manual_chiller_override = None
                             /\ f.manual_cooling_override = None
                             /\ f.manual_pump_override \in {"on", "auto", None} }
    \cup { Malformed([ exists |-> TRUE, parses |-> TRUE, manual_pump_override |-> "on",
                       manual_chiller_override |-> None,
                       manual_cooling_override |-> None ]) }

StartupFiles ==
    { [ setpoint |-> s, operational_params |-> p, overrides |-> o ] :
      s \in SetpointFiles, p \in ParamsFiles, o \in StartupOverridesFiles }

InitStartup == \E fs \in StartupFiles : StateAfterInit(ScaledConfig, fs, FALSE)

\* startup from any files, setpoint commands whose writes succeed, restarts
NextStartup ==
    \/ SetSetpointSaved
    \/ Restart

SpecStartup == InitStartup /\ [][NextStartup]_vars

InitOverridesFile ==
    \E f \in OverridesFiles :
        StateAfterInit(ScaledConfig, [NoFiles EXCEPT !.overrides = f], FALSE)

\* payloads of an override command: the three recognised values and another
OverridePayloads == OverrideValues \cup {"garbage"}

SetAnyOverride ==
    \E device \in Devices, value \in OverridePayloads, write_ok \in BOOLEAN :
        set_override(device, value, write_ok)

\* override commands whose writes succeed or fail, and restarts, from any
\* overrides.json
NextOverridesFile ==
    \/ SetAnyOverride
    \/ Restart

SpecOverridesFile == InitOverridesFile /\ [][NextOverridesFile]_vars

\* the devices of the override topics and one that has no override
CommandDevices == Devices \cup {"condenser"}

\* payloads as set_override may be handed them: the spellings of On and Off
\* in other cases and with surrounding blanks, None, and strings that are
\* neither
TextPayloads == {"on", "off", " ON ", "Off", None, "auto", "garbage", "o n"}

SetOverrideText ==
    \E device \in CommandDevices, value \in TextPayloads, write_ok \in BOOLEAN :
        set_override(device, value, write_ok)

\* override commands of every spelling for every device, effects recorded
NextOverrideText ==
    \/ SetOverrideText

SpecOverrideText == InitRecorded /\ [][NextOverrideText]_vars

\* the control loop under the pump and chiller overrides until the shutdown
\* signal; the control thread keeps running, so an iteration it has entered
\* completes and a loop condition that fails is acted on
NextShutdown ==
    \/ AdvanceShort
    \/ EnterTick
    \/ ControlTick
    \/ SetRelayOverride
    \/ SetStop
    \/ ControlLoopExit

SpecShutdown ==
    /\ InitScaled
    /\ [][NextShutdown]_vars
    /\ WF_vars(ControlTick)
    /\ WF_vars(ControlLoopExit)

\* the control loop with remote calls, a pump override, a failing supply
\* probe and activity on the remote link
NextComms ==
    \/ AdvanceScaled
    \/ ControlTick
    \/ UpdateSupplyFault
    \/ SetPumpOverride
    \/ update_ahu_call
    \/ update_mqtt_timestamp

SpecComms == InitScaled /\ [][NextComms]_vars

(***************************************************************************)
(* update_ambient_lockout_status statement by statement.  SystemState has  *)
(* no lock: the sensor thread (update_temperatures, line 369) and the      *)
(* thread of a command (set_ambient_lockout_setpoint, line 254) run it on  *)
(* the same fields, and each step below holds one access to a shared       *)
(* field.  threads[t] holds the position of thread t and its locals:       *)
(*   arg      the argument of the call in progress                         *)
(*   ambient_temp, lockout_target, new_lockout_state   locals of lines     *)
(*            391, 405 and 409                                             *)
(* hist.outcomes holds, for the two calls in progress, the lockout fields  *)
(* that the two sequential orders of the calls give from the state in      *)
(* which they were invoked.                                                *)
(***************************************************************************)
LockoutThreads == {"sensor", "command"}

Returned(t) == threads[t].pc \in {"idle", "done"}

\* the ambient fields of the state
LockoutFields ==
    [ active |-> ambient_lockout_active,
      below |-> ambient_temp_below_lockout_setpoint_since,
      above |-> ambient_temp_above_lockout_release_since,
      setpoint |-> ambient_lockout_setpoint,
      ambient_temp |-> get_sensor_temp("ambient") ]

\* update_temperatures with a valid ambient reading, run alone on fields s
AfterSensorCall(s, reading, n) ==
    LET lk == LockoutStatus(n, reading, s.active, s.below, s.above, s.setpoint)
    IN  [ active |-> lk.active, below |-> lk.below, above |-> lk.above,
          setpoint |-> s.setpoint, ambient_temp |-> reading ]

\* set_ambient_lockout_setpoint(value), run alone on fields s
AfterCommandCall(s, value, n) ==
    IF ~value_changed(s.setpoint, value) THEN s
    ELSE LET lk == LockoutStatus(n, s.ambient_temp, s.active, 0, 0, value)
         IN  [ active |-> lk.active, below |-> lk.below, above |-> lk.above,
               setpoint |-> value, ambient_temp |-> s.ambient_temp ]

SequentialOutcomes(s, reading, value, n) ==
    { AfterCommandCall(AfterSensorCall(s, reading, n), value, n),
      AfterSensorCall(AfterCommandCall(s, value, n), reading, n) }

Locals(position, argument) ==
    [ pc |-> position, arg |-> argument, ambient_temp |-> NoReading,
      lockout_target |-> 0, new_lockout_state |-> FALSE ]

\* sensors.py, line 101, and a command handler: the two calls are made
Invoke(batch, value) ==
    /\ \A t \in LockoutThreads : Returned(t)
    /\ threads' = [threads EXCEPT !.sensor = Locals("341", <<batch>>),
                                  !.command = Locals("246", <<value>>)]
    /\ hist' = [hist EXCEPT !.outcomes =
                    SequentialOutcomes(LockoutFields, batch["ambient"], value, now)]
    /\ op' = "invoke"
    /\ effects' = NoEffects
    /\ UNCHANGED <<cfg, now, paramVars, overrideVars, callVars, mqttVars, lockoutVars,
                   sensorVars, relayVars, tick, files, shutdownVars>>

\* update_temperatures, lines 338-368, up to the call of line 369
SensorStore ==
    LET batch == threads.sensor.arg[1]
        valid == BatchValid(batch)
    IN  /\ threads.sensor.pc = "341"
        /\ sensor_temps' = BatchTemps(batch)
        /\ sensor_readings_valid' = valid
        /\ critical_sensor_fault' = FaultAfterBatch(valid)
        /\ threads' = [threads EXCEPT !.sensor.pc =
                          IF ambient_temp_updated(batch) THEN "391" ELSE "done"]
        /\ op' = "update_temperatures"
        /\ effects' = NoEffects
        /\ UNCHANGED <<cfg, now, paramVars, overrideVars, callVars, mqttVars, lockoutVars,
                       sensor_loop_alive, relayVars, tick, hist, files, shutdownVars>>

\* set_ambient_lockout_setpoint, lines 240-253, up to the call of line 254
CommandStep ==
    LET pc == threads.command.pc
        value == threads.command.arg[1]
        goto(position) == [threads EXCEPT !.command.pc = position]
    IN  /\ pc \in {"246", "247", "248", "252", "253"}
        /\ threads' = IF pc = "246"
                       THEN goto(IF value_changed(ambient_lockout_setpoint, value)
                                 THEN "247" ELSE "done")
                       ELSE IF pc = "247" THEN goto("248")
                       ELSE IF pc = "248" THEN goto("252")
                       ELSE IF pc = "252" THEN goto("253")
                       ELSE goto("391")
        /\ ambient_lockout_setpoint' =
              IF pc = "247" THEN value ELSE ambient_lockout_setpoint
        /\ files' = IF pc = "248"
                    THEN save_operational_params(files, TRUE, differential,
                                                 ambient_lockout_setpoint)
                    ELSE files
        /\ ambient_temp_below_lockout_setpoint_since' =
              IF pc = "252" THEN 0 ELSE ambient_temp_below_lockout_setpoint_since
        /\ ambient_temp_above_lockout_release_since' =
              IF pc = "253" THEN 0 ELSE ambient_temp_above_lockout_release_since
        /\ op' = "set_ambient_lockout_setpoint"
        /\ effects' = NoEffects
        /\ UNCHANGED <<cfg, now, setpoint, differential, overrideVars, callVars, mqttVars,
                       ambient_lockout_active, sensorVars, relayVars, tick, hist,
                       shutdownVars>>

\* one statement of update_ambient_lockout_status in thread t; a position is
\* the line of the statement
LockoutStep(t) ==
    LET pc == threads[t].pc
        l == threads[t]
        below_since == ambient_temp_below_lockout_setpoint_since
        above_since == ambient_temp_above_lockout_release_since
        release_target == l.lockout_target + AMBIENT_LOCKOUT_DEADBAND_F
        debounced(since) == (now - since) >= AMBIENT_LOCKOUT_DEBOUNCE_DURATION_SEC
        goto(position) == [threads EXCEPT ![t].pc = position]
    IN  /\ pc \in {"391", "397", "401", "402", "405", "408", "416", "417", "419", "421",
                    "426", "427", "429", "431", "437", "438", "442", "443"}
        /\ threads' =
             IF pc = "391"
             THEN [threads EXCEPT ![t].ambient_temp = get_sensor_temp("ambient"),
                                  ![t].pc = IF get_sensor_temp("ambient") = NoReading
                                            THEN "397" ELSE "405"]
             ELSE IF pc = "397" THEN goto("401")
             ELSE IF pc = "401" THEN goto("402")
             ELSE IF pc = "402" THEN goto("done")
             ELSE IF pc = "405"
             THEN [threads EXCEPT ![t].lockout_target = ambient_lockout_setpoint,
                                  ![t].pc = "408"]
             ELSE IF pc = "408"
             THEN [threads EXCEPT ![t].new_lockout_state = ambient_lockout_active,
                                  ![t].pc =
                                     IF Value(l.ambient_temp) < l.lockout_target THEN "416"
                                     ELSE IF Value(l.ambient_temp) > release_target
                                          THEN "426" ELSE "437"]
             ELSE IF pc = "416" THEN goto(IF below_since = 0 THEN "417" ELSE "419")
             ELSE IF pc = "417" THEN goto("419")
             ELSE IF pc = "419" THEN goto("421")
             ELSE IF pc = "421"
             THEN [threads EXCEPT ![t].new_lockout_state =
                                     IF debounced(below_since) THEN TRUE ELSE @,
                                  ![t].pc = "442"]
             ELSE IF pc = "426" THEN goto(IF above_since = 0 THEN "427" ELSE "429")
             ELSE IF pc = "427" THEN goto("429")
             ELSE IF pc = "429" THEN goto("431")
             ELSE IF pc = "431"
             THEN [threads EXCEPT ![t].new_lockout_state =
                                     IF debounced(above_since) THEN FALSE ELSE @,
                                  ![t].pc = "442"]
             ELSE IF pc = "437" THEN goto("438")
             ELSE IF pc = "438" THEN goto("442")
             ELSE IF pc = "442"
             THEN goto(IF ambient_lockout_active /= l.new_lockout_state
                       THEN "443" ELSE "done")
             ELSE goto("done")
        /\ ambient_lockout_active' =
              IF pc = "397" THEN FALSE
              ELSE IF pc = "443" THEN l.new_lockout_state
              ELSE ambient_lockout_active
        /\ ambient_temp_below_lockout_setpoint_since' =
              IF pc = "417" THEN now
              ELSE IF pc \in {"401", "429", "437"} THEN 0
              ELSE below_since
        /\ ambient_temp_above_lockout_release_since' =
              IF pc = "427" THEN now
              ELSE IF pc \in {"402", "419", "438"} THEN 0
              ELSE above_since
        /\ op' = IF t = "sensor" THEN "update_temperatures"
                 ELSE "set_ambient_lockout_setpoint"
        /\ effects' = NoEffects
        /\ UNCHANGED <<cfg, now, paramVars, overrideVars, callVars, mqttVars, sensorVars,
                       relayVars, tick, hist, files, shutdownVars>>

\* time passes between calls
AdvanceReturned ==
    /\ \A t \in LockoutThreads : Returned(t)
    /\ Advance(MaxTime)

\* a valid ambient reading below the setpoints or above the release targets
\* arrives while a command sets the lockout setpoint
InvokeBoth ==
    \E batch \in SensorBatches({Reading(48)}, {Reading(44), Reading(56)}),
       value \in {40, INITIAL_AMBIENT_LOCKOUT_SETPOINT_F_DEFAULT} :
        Invoke(batch, value)

SensorLockoutStep == LockoutStep("sensor")

CommandLockoutStep == LockoutStep("command")

NextInterleaved ==
    \/ AdvanceReturned
    \/ InvokeBoth
    \/ SensorStore
    \/ SensorLockoutStep
    \/ CommandStep
    \/ CommandLockoutStep

SpecInterleaved == InitScaled /\ [][NextInterleaved]_vars

(***************************************************************************)
(* The actuation of an iteration (controller.py 219-229) statement by      *)
(* statement, next to publish_all_states (mqtt_client.py 223-224) in the   *)
(* status publisher thread.  threads.publisher holds the pump state read   *)
(* at line 223 and, at position "published", the pair just published.      *)
(***************************************************************************)
\* controller.py, lines 115-212: the iteration up to its two decisions
TickDecide ==
    LET call == check_for_call_timeout(now)
        outcome == TickOutcome(mqtt_comms_lost, last_mqtt_message_time)
    IN  /\ controller_thread = "loop"
        /\ threads.control.pc = "idle"
        /\ ~stop_event
        /\ threads' = [threads EXCEPT !.control = [ pc |-> "219" ]]
        /\ mqtt_comms_lost' = outcome.mqtt_comms_lost
        /\ is_ahu_calling' = call.is_ahu_calling
        /\ pump_post_purge_end_time' =
             PurgeAfterPumpDecision(get_override("pump"), call.pump_post_purge_end_time)
        /\ tick' = [ demand_for_pump |-> call.overall_pump_demand,
                     pump_on_decision |-> outcome.pump_on_decision,
                     condenser_on_decision |-> outcome.condenser_on_decision,
                     is_chiller_currently_running_hw |-> relay_states["condenser"] ]
        /\ op' = "decide"
        /\ effects' = NoEffects
        /\ UNCHANGED <<cfg, now, paramVars, overrideVars, last_ahu_call_time,
                       last_mqtt_message_time, lockoutVars, sensorVars, relayVars,
                       hist, files, shutdownVars>>

\* controller.py, lines 219-222
TickPump ==
    LET called == decision_differs(relay_states["pump"], tick.pump_on_decision)
        r == IF called
             THEN set_relay_state(relay_states, condenser_last_off_time,
                                  "pump", tick.pump_on_decision, now)
             ELSE [ relays |-> relay_states, last_off |-> condenser_last_off_time ]
    IN  /\ threads.control.pc = "219"
        /\ threads' = [threads EXCEPT !.control = [ pc |-> "225" ]]
        /\ relay_states' = r.relays
        /\ condenser_last_off_time' = r.last_off
        /\ gpio' = _set_gpio_state(gpio, "pump", tick.pump_on_decision, called)
        /\ op' = "actuate_pump"
        /\ effects' = NoEffects
        /\ UNCHANGED <<cfg, now, paramVars, overrideVars, callVars, mqttVars, lockoutVars,
                       sensorVars, tick, hist, files, stop_event, controller_thread>>

\* controller.py, lines 225-229, and the end of the iteration
TickCondenser ==
    LET called == decision_differs(relay_states["condenser"], tick.condenser_on_decision)
        r == IF called
             THEN set_relay_state(relay_states, condenser_last_off_time,
                                  "condenser", tick.condenser_on_decision, now)
             ELSE [ relays |-> relay_states, last_off |-> condenser_last_off_time ]
    IN  /\ threads.control.pc = "225"
        /\ threads' = [threads EXCEPT !.control = [ pc |-> "idle" ]]
        /\ relay_states' = r.relays
        /\ condenser_last_off_time' = r.last_off
        /\ gpio' = _set_gpio_state(gpio, "condenser", tick.condenser_on_decision, called)
        /\ hist' = [hist EXCEPT
                     !.cond_off_at = IF relay_states["condenser"] /\ ~r.relays["condenser"]
                                     THEN now ELSE @,
                     !.completed = @ \cup { <<r.relays["pump"], r.relays["condenser"]>> }]
        /\ op' = "control_loop"
        /\ effects' = NoEffects
        /\ UNCHANGED <<cfg, now, paramVars, overrideVars, callVars, mqttVars, lockoutVars,
                       sensorVars, tick, files, stop_event, controller_thread>>

\* mqtt_client.py, line 223: publish_all_states reads and publishes the pump state
PublishPump ==
    /\ threads.publisher.pc \in {"idle", "published"}
    /\ threads' = [threads EXCEPT !.publisher =
                      [ pc |-> "224", pump |-> relay_states["pump"],
                        condenser |-> FALSE ]]
    /\ op' = "publish_pump"
    /\ effects' = NoEffects
    /\ UNCHANGED <<cfg, now, paramVars, overrideVars, callVars, mqttVars, lockoutVars,
                   sensorVars, relayVars, tick, hist, files, shutdownVars>>

\* mqtt_client.py, line 224: it reads and publishes the condenser state
PublishCondenser ==
    /\ threads.publisher.pc = "224"
    /\ threads' = [threads EXCEPT !.publisher.pc = "published",
                                  !.publisher.condenser = relay_states["condenser"]]
    /\ op' = "publish_condenser"
    /\ effects' = NoEffects
    /\ UNCHANGED <<cfg, now, paramVars, overrideVars, callVars, mqttVars, lockoutVars,
                   sensorVars, relayVars, tick, hist, files, shutdownVars>>

NextPublish ==
    \/ AdvanceShort
    \/ TickDecide
    \/ TickPump
    \/ TickCondenser
    \/ SetRelayOverride
    \/ PublishPump
    \/ PublishCondenser

SpecPublish == InitScaled /\ [][NextPublish]_vars

\* the critical sensor of config.json is "supply", "ambient", both, or
\* "return", a key for which no sensor id is configured
SensorConfigs ==
    { [ScaledConfig EXCEPT !.critical_sensors = c] :
        c \in {{"supply"}, {"ambient"}, {"supply", "ambient"}, {"return"}} }

InitSensors == \E config \in SensorConfigs : StateAfterInit(config, NoFiles, FALSE)

\* both probes vary and fail
UpdateAny ==
    \E batch \in SensorBatches({NoReading, Reading(48)}, ReadingsOf(AmbientTemps)) :
        update_temperatures(batch)

NextSensors ==
    \/ AdvanceScaled
    \/ UpdateAny
    \/ SetLockoutSetpoint

SpecSensors == InitSensors /\ [][NextSensors]_vars

NextCall ==
    \/ AdvanceDefault
    \/ ControlTick
    \/ FirstCall
    \/ SetCoolingNotOn

SpecCall == InitCall /\ [][NextCall]_vars

AdvanceMinOff == Advance(MaxTimeMinOff)

\* the supply probe reads above the On threshold or below the setpoint
UpdateSupplyHighLow ==
    \E batch \in SensorBatches({Reading(49), Reading(44)}, {Reading(50)}) :
        update_temperatures(batch)

SetPumpForced == set_override("pump", "on", TRUE)

\* the default configuration with the pump forced On and a supply reading
\* on either side of the hysteresis band
NextMinOff ==
    \/ AdvanceMinOff
    \/ ControlTick
    \/ UpdateSupplyHighLow
    \/ SetPumpForced

SpecMinOff == InitCall /\ [][NextMinOff]_vars

AdvanceManual == Advance(MaxTimeManual)

\* the ambient probe reads below the lockout setpoint, the supply probe reads
\* the On threshold or fails
UpdateColdAmbient ==
    \E batch \in SensorBatches({NoReading, Reading(48)}, {Reading(49)}) :
        update_temperatures(batch)

\* the control loop under the pump and chiller overrides while the ambient
\* lockout comes into force
NextManual ==
    \/ AdvanceManual
    \/ ControlTick
    \/ UpdateColdAmbient
    \/ SetRelayOverride

SpecManual == InitScaled /\ [][NextManual]_vars

SetPumpAny == \E value \in OverrideValues : set_override("pump", value, TRUE)

\* the control loop under the pump override and remote calls while the
\* ambient lockout comes into force
NextPump ==
    \/ AdvanceManual
    \/ ControlTick
    \/ UpdateColdAmbient
    \/ SetPumpAny
    \/ update_ahu_call

SpecPump == InitScaled /\ [][NextPump]_vars

SetCoolingAny == \E value \in OverrideValues : set_override("cooling", value, TRUE)

\* the control loop under remote calls and the cooling override
NextCooling ==
    \/ AdvanceManual
    \/ ControlTick
    \/ SetCoolingAny
    \/ update_ahu_call

SpecCooling == InitScaled /\ [][NextCooling]_vars

\* the critical sensor of config.json is "supply", or the list is empty
BatchConfigs == { [ScaledConfig EXCEPT !.critical_sensors = c] : c \in {{"supply"}, {}} }

InitBatches == \E config \in BatchConfigs : StateAfterInit(config, NoFiles, FALSE)

\* the sensor loop while time passes
NextBatches ==
    \/ AdvanceManual
    \/ UpdateAny

SpecBatches == InitBatches /\ [][NextBatches]_vars

(***************************************************************************)
(* The decisions of an iteration (controller.py 115-229) read by read,     *)
(* next to the sensor thread and a setpoint command.  threads.control      *)
(* holds the locals of control_loop; hist.outcomes holds the decisions the *)
(* iteration would have taken from the shared state as it stood before     *)
(* each of its steps.  Between two steps of the iteration at most one      *)
(* operation of another thread is taken, so that every state the shared    *)
(* fields go through during the iteration is one of those.                 *)
(***************************************************************************)
\* overrides.json holds the pump override On
PumpOnOverridesFile ==
    [ exists |-> TRUE, parses |-> TRUE, manual_pump_override |-> "on",
      manual_chiller_override |-> None, manual_cooling_override |-> None ]

InitSnapshot ==
    StateAfterInit(ScaledConfig, [NoFiles EXCEPT !.overrides = PumpOnOverridesFile], FALSE)

\* the locals of an iteration before its first read
TickLocals(position) ==
    [ pc |-> position, manual_pump_override |-> None, manual_condenser_override |-> None,
      supply_temp_f |-> NoReading, pump_on_decision |-> FALSE,
      is_chiller_currently_running_hw |-> FALSE, fault |-> FALSE,
      setpoint |-> 0, differential |-> 0 ]

\* lines 165-212 on the locals l of the iteration
CondenserDecisionOfLocals(l) ==
    IF ~l.pump_on_decision THEN FALSE
    ELSE condenser_override_decision(
             l.manual_condenser_override,
             IF l.fault THEN FALSE
             ELSE IF l.supply_temp_f = NoReading THEN FALSE
             ELSE IF l.is_chiller_currently_running_hw
                  THEN AutoDecisionWhenOn(l.supply_temp_f, l.setpoint)
                  ELSE AutoDecisionWhenOff(l.supply_temp_f, l.setpoint + l.differential,
                                           now, condenser_last_off_time))

\* the decisions an iteration run on the current shared state would take,
\* added to those of the earlier instants of the iteration
InstantsWith(earlier) ==
    earlier \cup { Decisions(TickOutcome(mqtt_comms_lost, last_mqtt_message_time)) }

\* lines 115-121: the iteration starts
SnapshotEnter ==
    /\ controller_thread = "loop"
    /\ threads.control.pc = "idle"
    /\ ~stop_event
    /\ threads' = [threads EXCEPT !.control = TickLocals("124")]
    /\ mqtt_comms_lost' = check_mqtt_failsafe(now)
    /\ hist' = [hist EXCEPT !.outcomes = InstantsWith({})]
    /\ op' = "read"
    /\ effects' = NoEffects
    /\ UNCHANGED <<cfg, now, paramVars, overrideVars, callVars, last_mqtt_message_time,
                   lockoutVars, sensorVars, relayVars, tick, files, shutdownVars>>

\* lines 124, 125, 128, 162, 178, 183 and 184: one read of the shared state
SnapshotRead ==
    LET l == threads.control
        auto == l.pump_on_decision /\ l.manual_condenser_override = None
        after ==
          CASE l.pc = "124" -> [l EXCEPT !.pc = "125",
                                         !.manual_pump_override = get_override("pump")]
            [] l.pc = "125" -> [l EXCEPT !.pc = "128",
                                         !.manual_condenser_override = get_override("chiller")]
            [] l.pc = "128" -> [l EXCEPT !.pc = "137",
                                         !.supply_temp_f = get_sensor_temp("supply")]
            [] l.pc = "162" -> [l EXCEPT !.pc = IF auto THEN "178" ELSE "219",
                                         !.is_chiller_currently_running_hw =
                                             relay_states["condenser"]]
            [] l.pc = "178" -> [l EXCEPT !.pc = IF critical_sensor_fault
                                                   \/ l.supply_temp_f = NoReading
                                                THEN "219" ELSE "183",
                                         !.fault = critical_sensor_fault]
            [] l.pc = "183" -> [l EXCEPT !.pc = "184", !.setpoint = setpoint]
            [] l.pc = "184" -> [l EXCEPT !.pc = "219", !.differential = differential]
    IN  /\ l.pc \in {"124", "125", "128", "162", "178", "183", "184"}
        /\ threads' = [threads EXCEPT !.control = after]
        /\ hist' = [hist EXCEPT !.outcomes = InstantsWith(@)]
        /\ op' = "read"
        /\ effects' = NoEffects
        /\ UNCHANGED <<cfg, now, paramVars, overrideVars, callVars, mqttVars, lockoutVars,
                       sensorVars, relayVars, tick, files, shutdownVars>>

\* lines 137-156: the demand tracker and the pump decision
SnapshotPumpLogic ==
    LET l == threads.control
        call == check_for_call_timeout(now)
    IN  /\ l.pc = "137"
        /\ threads' = [threads EXCEPT !.control =
                          [l EXCEPT !.pc = "162",
                                    !.pump_on_decision =
                                        PumpDecision(l.manual_pump_override,
                                                     call.overall_pump_demand)]]
        /\ is_ahu_calling' = call.is_ahu_calling
        /\ pump_post_purge_end_time' =
             PurgeAfterPumpDecision(l.manual_pump_override, call.pump_post_purge_end_time)
        /\ hist' = [hist EXCEPT !.outcomes = InstantsWith(@)]
        /\ op' = "read"
        /\ effects' = NoEffects
        /\ UNCHANGED <<cfg, now, paramVars, overrideVars, last_ahu_call_time, mqttVars,
                       lockoutVars, sensorVars, relayVars, tick, files, shutdownVars>>

\* lines 186-229: the condenser decision from the locals, and the actuation
SnapshotActuate ==
    LET l == threads.control
        pump_on_decision == l.pump_on_decision
        condenser_on_decision == CondenserDecisionOfLocals(l)
        r1 == IF decision_differs(relay_states["pump"], pump_on_decision)
              THEN set_relay_state(relay_states, condenser_last_off_time,
                                   "pump", pump_on_decision, now)
              ELSE [ relays |-> relay_states, last_off |-> condenser_last_off_time ]
        r2 == IF decision_differs(r1.relays["condenser"], condenser_on_decision)
              THEN set_relay_state(r1.relays, r1.last_off,
                                   "condenser", condenser_on_decision, now)
              ELSE r1
    IN  /\ l.pc = "219"
        /\ threads' = [threads EXCEPT !.control = [ pc |-> "idle" ]]
        /\ relay_states' = r2.relays
        /\ condenser_last_off_time' = r2.last_off
        /\ tick' = [ demand_for_pump |-> tick.demand_for_pump,
                     pump_on_decision |-> pump_on_decision,
                     condenser_on_decision |-> condenser_on_decision,
                     is_chiller_currently_running_hw |-> l.is_chiller_currently_running_hw ]
        /\ hist' = [hist EXCEPT
                     !.outcomes = InstantsWith(@),
                     !.cond_off_at = IF relay_states["condenser"] /\ ~r2.relays["condenser"]
                                     THEN now ELSE @]
        /\ gpio' = _set_gpio_state(
                       _set_gpio_state(gpio, "pump", pump_on_decision,
                                       decision_differs(relay_states["pump"],
                                                        pump_on_decision)),
                       "condenser", condenser_on_decision,
                       decision_differs(r1.relays["condenser"], condenser_on_decision))
        /\ op' = "control_loop"
        /\ effects' = NoEffects
        /\ UNCHANGED <<cfg, now, paramVars, overrideVars, callVars, mqttVars, lockoutVars,
                       sensorVars, files, stop_event, controller_thread>>

\* the iteration is not running, or its last step has just been taken
BetweenReads == threads.control.pc = "idle" \/ op = "read"

\* the sensor thread delivers a supply reading at or above the On threshold
UpdateSupplyWarm ==
    /\ BetweenReads
    /\ \E batch \in SensorBatches({Reading(48), Reading(60)}, {Reading(50)}) :
           update_temperatures(batch)

\* a setpoint command raises the setpoint or puts it back
SetSetpointWarm ==
    /\ BetweenReads
    /\ \E value \in {FALLBACK_SETPOINT_F_DEFAULT, 50} : set_setpoint(Reading(value), TRUE)

\* time passes between iterations
AdvanceIdle ==
    /\ threads.control.pc = "idle"
    /\ Advance(MaxTimeManual)

NextSnapshot ==
    \/ AdvanceIdle
    \/ SnapshotEnter
    \/ SnapshotRead
    \/ SnapshotPumpLogic
    \/ SnapshotActuate
    \/ UpdateSupplyWarm
    \/ SetSetpointWarm

SpecSnapshot == InitSnapshot /\ [][NextSnapshot]_vars

(***************************************************************************)
(* check_mqtt_failsafe (state.py 487-493), called by the control thread at *)
(* controller.py 121, and update_mqtt_timestamp (state.py 479-485), called *)
(* by the MQTT thread at mqtt_client.py 131, statement by statement.       *)
(***************************************************************************)
\* check_mqtt_failsafe: the comparison of line 489, the test of line 490 and
\* the assignment of line 491
FailsafeStep ==
    LET pc == threads.control.pc
        goto(position) == [threads EXCEPT !.control.pc = position]
    IN  /\ pc \in {"idle", "490", "491"}
        /\ threads' =
             CASE pc = "idle" ->
                    goto(IF (now - last_mqtt_message_time) > MQTT_FAILSAFE_TIMEOUT_SEC
                         THEN "490" ELSE "idle")
               [] pc = "490" -> goto(IF ~mqtt_comms_lost THEN "491" ELSE "idle")
               [] pc = "491" -> goto("idle")
        /\ mqtt_comms_lost' = IF pc = "491" THEN TRUE ELSE mqtt_comms_lost
        /\ op' = "check_mqtt_failsafe"
        /\ effects' = NoEffects
        /\ UNCHANGED <<cfg, now, paramVars, overrideVars, callVars, last_mqtt_message_time,
                       lockoutVars, sensorVars, relayVars, tick, hist, files, shutdownVars>>

\* update_mqtt_timestamp: the assignment of line 481, the test of line 482
\* and the assignment of line 483
TimestampStep ==
    LET pc == threads.command.pc
        goto(position) == [threads EXCEPT !.command.pc = position]
    IN  /\ pc \in {"idle", "482", "483"}
        /\ threads' =
             CASE pc = "idle" -> goto("482")
               [] pc = "482" -> goto(IF mqtt_comms_lost THEN "483" ELSE "idle")
               [] pc = "483" -> goto("idle")
        /\ last_mqtt_message_time' = IF pc = "idle" THEN now ELSE last_mqtt_message_time
        /\ mqtt_comms_lost' = IF pc = "483" THEN FALSE ELSE mqtt_comms_lost
        /\ op' = "update_mqtt_timestamp"
        /\ effects' = NoEffects
        /\ UNCHANGED <<cfg, now, paramVars, overrideVars, callVars, lockoutVars,
                       sensorVars, relayVars, tick, hist, files, shutdownVars>>

NextFailsafeRace ==
    \/ AdvanceScaled
    \/ FailsafeStep
    \/ TimestampStep

SpecFailsafeRace == InitScaled /\ [][NextFailsafeRace]_vars

(***************************************************************************)
(* Properties                                                              *)
(***************************************************************************)
Ticked == op = "control_loop"

supply_now == get_sensor_temp("supply")

\* C1: a tick under the Auto condenser override that changes the commanded
\* condenser state from Off to On comes at least CONDENSER_MIN_OFF_TIME_SEC
\* after condenser_last_off_time, which is the time of the last On->Off
\* transition (or of construction when there has been none).
C1_MinimumOffTime ==
    (/\ Ticked
     /\ manual_chiller_override = None
     /\ ~tick.is_chiller_currently_running_hw
     /\ tick.condenser_on_decision)
    => /\ now - condenser_last_off_time >= CONDENSER_MIN_OFF_TIME_SEC
       /\ hist.cond_off_at /= 0 => now - hist.cond_off_at >= CONDENSER_MIN_OFF_TIME_SEC

\* the condenser comes back On in auto mode after an earlier On->Off transition
C1_Witness ==
    /\ Ticked
    /\ manual_chiller_override = None
    /\ ~tick.is_chiller_currently_running_hw
    /\ tick.condenser_on_decision
    /\ hist.cond_off_at /= 0

\* C2: a tick whose pump decision is Off decides condenser Off, under every
\* combination of the three overrides; and the cached relay state never has
\* the condenser On with the pump Off.
C2_CondenserNeedsPump ==
    /\ Ticked /\ ~tick.pump_on_decision => ~tick.condenser_on_decision
    /\ relay_states["condenser"] => relay_states["pump"]

\* the pump is decided Off while the condenser is running under a manual On
C2_Witness ==
    /\ Ticked
    /\ ~tick.pump_on_decision
    /\ manual_chiller_override = "on"
    /\ manual_cooling_override = "on"
    /\ tick.is_chiller_currently_running_hw

\* C3: hysteresis in auto mode with the pump decided On, no fault, a valid
\* supply reading and differential > 0: a condenser commanded On stays On
\* exactly for supply > setpoint; a condenser commanded Off stays Off for
\* every supply < setpoint + differential.
C3_Hysteresis ==
    (/\ Ticked
     /\ manual_chiller_override = None
     /\ tick.pump_on_decision
     /\ ~critical_sensor_fault
     /\ supply_now /= NoReading
     /\ differential > 0)
    => /\ tick.is_chiller_currently_running_hw
          => (tick.condenser_on_decision <=> Value(supply_now) > setpoint)
       /\ (~tick.is_chiller_currently_running_hw
           /\ Value(supply_now) < setpoint + differential)
          => ~tick.condenser_on_decision

\* a running condenser is kept On by a reading strictly between the thresholds
C3_Witness ==
    /\ Ticked
    /\ manual_chiller_override = None
    /\ tick.pump_on_decision
    /\ ~critical_sensor_fault
    /\ supply_now /= NoReading
    /\ tick.is_chiller_currently_running_hw
    /\ tick.condenser_on_decision
    /\ Value(supply_now) > setpoint
    /\ Value(supply_now) < setpoint + differential

\* C4: under the Auto condenser override a tick evaluated with the critical
\* sensor fault set, or with no supply reading, decides condenser Off and
\* leaves the condenser commanded Off.
C4_FaultForcesOff ==
    (/\ Ticked
     /\ manual_chiller_override = None
     /\ (critical_sensor_fault \/ supply_now = NoReading))
    => /\ ~tick.condenser_on_decision
       /\ ~relay_states["condenser"]

\* a running condenser is turned Off by a missing supply reading that raises
\* no fault (the supply key is not critical), with the pump decided On
C4_Witness ==
    /\ Ticked
    /\ manual_chiller_override = None
    /\ ~critical_sensor_fault
    /\ supply_now = NoReading
    /\ tick.pump_on_decision
    /\ tick.is_chiller_currently_running_hw
    /\ ~tick.condenser_on_decision

\* C5: with the pump override Auto, a tick evaluated while the ambient
\* lockout is active decides pump Off.
C5_LockoutStopsPump ==
    (Ticked /\ manual_pump_override = None /\ ambient_lockout_active)
    => ~tick.pump_on_decision

\* C6: with the condenser override Auto, a tick evaluated while the ambient
\* lockout is active decides condenser Off.
C6_LockoutStopsCondenser ==
    (Ticked /\ manual_chiller_override = None /\ ambient_lockout_active)
    => ~tick.condenser_on_decision

\* C7: the lockout is activated only when every ambient reading submitted for
\* at least the debounce duration has been below the lockout setpoint, and is
\* released on a valid reading only when every reading for at least the
\* debounce duration has been above setpoint + deadband; a reading in the
\* deadband, on the other side, or unavailable restarts the count.
C7_DebouncedTransitions ==
    [][ /\ (~ambient_lockout_active /\ ambient_lockout_active')
           => /\ hist'.run_kind = "below"
              /\ now' - hist'.run_since >= AMBIENT_LOCKOUT_DEBOUNCE_DURATION_SEC
        /\ (ambient_lockout_active /\ ~ambient_lockout_active'
            /\ sensor_readings_valid'["ambient"])
           => /\ hist'.run_kind = "above"
              /\ now' - hist'.run_since >= AMBIENT_LOCKOUT_DEBOUNCE_DURATION_SEC
      ]_vars

\* C8: after a batch whose ambient reading is unavailable the lockout is
\* inactive and both debounce timestamps are null.
C8_InvalidAmbientUnlocks ==
    (op = "update_temperatures" /\ ~sensor_readings_valid["ambient"])
    => /\ ~ambient_lockout_active
       /\ ambient_temp_below_lockout_setpoint_since = 0
       /\ ambient_temp_above_lockout_release_since = 0

\* the one remote call has been received
Called == last_ahu_call_time /= 0

\* C9 as claimed: after one remote call at t0 the demand returned to a tick
\* is true until the call ceases at t0 + AHU_CALL_TIMEOUT_SEC, true for
\* exactly PUMP_POST_PURGE_DURATION_SEC seconds more, and false afterwards.
C9_PurgeFromEndOfCall ==
    (Ticked /\ Called /\ manual_cooling_override /= "on")
    => (tick.demand_for_pump <=>
          now < last_ahu_call_time + AHU_CALL_TIMEOUT_SEC + PUMP_POST_PURGE_DURATION_SEC)

\* C9 amended: the demand is true at every tick before t0 + AHU_CALL_TIMEOUT_SEC;
\* the purge runs from the tick that finds the call ended, which is at or after
\* t0 + AHU_CALL_TIMEOUT_SEC: the demand is true at the ticks before that
\* tick's time + PUMP_POST_PURGE_DURATION_SEC and false at every later tick.
C9_PurgeFromDetection ==
    (Ticked /\ Called /\ manual_cooling_override /= "on" /\ manual_pump_override = None)
    => /\ tick.demand_for_pump <=>
            \/ now < last_ahu_call_time + AHU_CALL_TIMEOUT_SEC
            \/ /\ hist.call_off_at /= 0
               /\ now < hist.call_off_at + PUMP_POST_PURGE_DURATION_SEC
       /\ hist.call_off_at /= 0
            => hist.call_off_at >= last_ahu_call_time + AHU_CALL_TIMEOUT_SEC

\* the end of the call was found late, and the demand is still true more than
\* the purge duration after the call ceased
C9_Witness ==
    /\ Ticked /\ Called
    /\ manual_cooling_override /= "on"
    /\ hist.call_off_at > last_ahu_call_time + AHU_CALL_TIMEOUT_SEC
    /\ now >= last_ahu_call_time + AHU_CALL_TIMEOUT_SEC + PUMP_POST_PURGE_DURATION_SEC
    /\ tick.demand_for_pump

\* seconds since the remote call of the scenario
SinceCall == now - last_ahu_call_time

\* the scenario of C10: timeout 300 s, purge 60 s, and the tick at t = 301 is
\* the one that turned is_ahu_calling off
Scenario301 ==
    /\ Called
    /\ AHU_CALL_TIMEOUT_SEC = 300
    /\ PUMP_POST_PURGE_DURATION_SEC = 60
    /\ manual_cooling_override /= "on"
    /\ hist.call_off_at = last_ahu_call_time + 301

\* C10 as claimed: the demand is true at t = 299, the tick at t = 301 turns
\* is_ahu_calling off and starts the post-purge, and the demand at t = 360
\* is false.
C10_ScenarioAsClaimed ==
    /\ (Ticked /\ Called /\ manual_cooling_override /= "on" /\ SinceCall = 299)
       => tick.demand_for_pump
    /\ (Ticked /\ Scenario301 /\ SinceCall = 301)
       => ~is_ahu_calling /\ pump_post_purge_end_time = now + 60
    /\ (Ticked /\ Scenario301 /\ SinceCall = 360)
       => ~tick.demand_for_pump

\* C10 amended: as claimed up to t = 301; the purge started at t = 301 ends at
\* t = 361, so the demand at t = 360 is still true and the demand at every
\* tick from t = 361 on is false.
C10_ScenarioAmended ==
    /\ (Ticked /\ Called /\ manual_cooling_override /= "on" /\ SinceCall = 299)
       => tick.demand_for_pump
    /\ (Ticked /\ Scenario301 /\ SinceCall = 301)
       => ~is_ahu_calling /\ pump_post_purge_end_time = now + 60
    /\ (Ticked /\ Scenario301 /\ SinceCall = 360)
       => tick.demand_for_pump
    /\ (Ticked /\ Scenario301 /\ SinceCall >= 361)
       => ~tick.demand_for_pump

\* the scenario has run to t = 361, where the demand is false
C10_Witness ==
    /\ Ticked /\ Scenario301 /\ SinceCall = 361
    /\ ~tick.demand_for_pump

\* everything the program holds in memory, the files and the pins
memoryVars == <<paramVars, overrideVars, callVars, mqttVars, lockoutVars, sensorVars,
                relayVars, files, gpio>>

\* the step is a call of a numeric setter with the value its field holds, or
\* of set_override with the override the device holds
SameValueCall ==
    \/ op' = "set_setpoint" /\ effects'.arg = Reading(setpoint)
    \/ op' = "set_differential" /\ effects'.arg = Reading(differential)
    \/ op' = "set_ambient_lockout_setpoint"
       /\ effects'.arg = Reading(ambient_lockout_setpoint)
    \/ /\ op' = "set_override"
       /\ effects'.arg[1] \in Devices
       /\ effects'.arg[2] = get_override(effects'.arg[1])

C12_LastOffTimeFrame ==
    [][ IF relay_states["condenser"] /\ ~relay_states'["condenser"]
        THEN condenser_last_off_time' = now'
        ELSE condenser_last_off_time' = condenser_last_off_time ]_vars

\* a tick after construction time has turned the running condenser Off
C12_Witness ==
    /\ Ticked
    /\ tick.is_chiller_currently_running_hw
    /\ ~relay_states["condenser"]
    /\ now > StartTime
    /\ condenser_last_off_time = now

\* C13: in every state, from construction onward, critical_sensor_fault is
\* true if and only if some key of the critical-sensor set has no valid
\* reading (sensor_readings_valid false or absent).
C13_FaultDerived ==
    critical_sensor_fault <=> \E key \in CRITICAL_SENSOR_KEYS : ~sensor_readings_valid[key]

\* the reading the lockout was last evaluated on lies in the deadband
EvaluatedInDeadband ==
    /\ hist.evaluated /= NoReading
    /\ Value(hist.evaluated) >= ambient_lockout_setpoint
    /\ Value(hist.evaluated) <= ambient_lockout_setpoint + AMBIENT_LOCKOUT_DEADBAND_F

\* C14: after every completed operation (a sensor batch, a change of the
\* lockout setpoint) at most one of the two debounce timestamps is non-zero,
\* and both are zero whenever the ambient reading the lockout was last
\* evaluated on lies in [lockout setpoint, lockout setpoint + deadband].
C14_TimersExclusive ==
    /\ ~(/\ ambient_temp_below_lockout_setpoint_since /= 0
         /\ ambient_temp_above_lockout_release_since /= 0)
    /\ EvaluatedInDeadband
       => /\ ambient_temp_below_lockout_setpoint_since = 0
          /\ ambient_temp_above_lockout_release_since = 0

\* a batch with a reading in the deadband has cleared the timestamp under
\* which the lockout became active
C14_Witness ==
    /\ op = "update_temperatures"
    /\ EvaluatedInDeadband
    /\ ambient_lockout_active
    /\ ambient_temp_below_lockout_setpoint_since = 0
    /\ ambient_temp_above_lockout_release_since = 0

\* both outputs are at the Off level
OutputsOff == ~gpio.pump /\ ~gpio.condenser

\* C15: once stop_event is set the control loop eventually leaves its tick
\* loop; when it has finished both outputs have been driven Off, and no
\* output is On afterwards.
C15_ShutdownDrivesOff ==
    /\ stop_event ~> (controller_thread = "done")
    /\ [](controller_thread = "done" => OutputsOff)

\* the loop has finished while the last tick had commanded both relays On:
\* the cache still says On, the outputs are Off
C15_Witness ==
    /\ controller_thread = "done"
    /\ stop_event
    /\ relay_states["pump"]
    /\ relay_states["condenser"]
    /\ OutputsOff

\* seconds since the last activity on the remote link
Silence == now - last_mqtt_message_time

\* C16: mqtt_comms_lost becomes true at a control tick, the first one at
\* which the silence exceeds MQTT_FAILSAFE_TIMEOUT_SEC; it stays true until
\* the next update_mqtt_timestamp, which sets it false and the timer to now.
C16_CommsFailsafe ==
    [][ /\ (op' = "control_loop" /\ Silence > MQTT_FAILSAFE_TIMEOUT_SEC)
           => mqtt_comms_lost'
        /\ (~mqtt_comms_lost /\ mqtt_comms_lost')
           => op' = "control_loop" /\ Silence > MQTT_FAILSAFE_TIMEOUT_SEC
        /\ (mqtt_comms_lost /\ op' /= "update_mqtt_timestamp")
           => mqtt_comms_lost'
        /\ (op' = "update_mqtt_timestamp")
           => ~mqtt_comms_lost' /\ last_mqtt_message_time' = now'
      ]_vars

\* the link was active after construction and has since been silent for
\* longer than the timeout: a tick has found the communication lost
C16_Witness ==
    /\ Ticked
    /\ mqtt_comms_lost
    /\ last_mqtt_message_time > StartTime
    /\ Silence > MQTT_FAILSAFE_TIMEOUT_SEC

\* C17: the pump and condenser decisions of a tick are the same from any two
\* states that differ only in mqtt_comms_lost and last_mqtt_message_time; and
\* a tick that finds the communication lost still decides from the cached
\* values: the pump from its override and the demand, a running condenser
\* from the supply reading against the setpoint.
C17_DecisionsIgnoreFailsafe ==
    /\ \A comms_lost \in BOOLEAN, last_message \in StartTime..now :
          Decisions(TickOutcome(comms_lost, last_message))
          = Decisions(TickOutcome(mqtt_comms_lost, last_mqtt_message_time))
    /\ (Ticked /\ mqtt_comms_lost)
       => /\ manual_pump_override = "on" => tick.pump_on_decision
          /\ manual_pump_override = None
             => (tick.pump_on_decision <=> tick.demand_for_pump)
          /\ (/\ tick.pump_on_decision
              /\ ~critical_sensor_fault
              /\ supply_now /= NoReading
              /\ tick.is_chiller_currently_running_hw)
             => (tick.condenser_on_decision <=> Value(supply_now) > setpoint)

\* a tick that finds the communication lost keeps pump and condenser On for
\* a remote call received before the link fell silent
C17_Witness ==
    /\ Ticked
    /\ mqtt_comms_lost
    /\ manual_pump_override = None
    /\ is_ahu_calling
    /\ tick.pump_on_decision
    /\ tick.is_chiller_currently_running_hw
    /\ tick.condenser_on_decision

\* at most one of the two debounce timestamps is set
TimersExclusive ==
    ~(/\ ambient_temp_below_lockout_setpoint_since /= 0
      /\ ambient_temp_above_lockout_release_since /= 0)

\* both calls have returned
BothReturned == threads.sensor.pc = "done" /\ threads.command.pc = "done"

\* the lockout fields are those of one sequential order of the two calls
SomeSequentialOrder == BothReturned => LockoutFields \in hist.outcomes

\* C18: while update_temperatures and set_ambient_lockout_setpoint run in
\* two threads, no state has both debounce timestamps set, and when both
\* calls have returned the lockout fields are those of one of the two
\* sequential orders of the calls.
C18_LockoutUpdateAtomic == TimersExclusive /\ SomeSequentialOrder

\* the (pump, condenser) pair of the last publication
Published == <<threads.publisher.pump, threads.publisher.condenser>>

\* C19: every publication of the relay states reports a (pump, condenser)
\* pair that was the cached pair at construction or at the end of one
\* completed iteration, and never condenser On with pump Off.
C19_PublicationConsistent ==
    threads.publisher.pc = "published"
    => /\ Published \in hist.completed
       /\ ~(threads.publisher.condenser /\ ~threads.publisher.pump)

\* the value of the field in memory is the one set at construction, or a
\* write made after the setter applied it has succeeded
Saved(field) == field \notin hist.unsaved

C21_ChillerSessionOnly ==
    [][ op' = "restart"
        => /\ manual_chiller_override' = None
           /\ Saved("pump") => manual_pump_override' = manual_pump_override
           /\ Saved("cooling") => manual_cooling_override' = manual_cooling_override
      ]_vars

\* C24: each of the three overrides is one of "on", "off" and None, directly
\* after startup from any overrides.json and after any override commands.
C24_OverrideValues ==
    /\ manual_pump_override \in OverrideValues
    /\ manual_chiller_override \in OverrideValues
    /\ manual_cooling_override \in OverrideValues

\* the step is a call of a setter that changed its field and whose write
\* failed
FailedWrite(setter, field) ==
    /\ op' = setter
    /\ effects'.writes /= {}
    /\ field \in hist'.unsaved

\* the step is a call of a setter whose write succeeded
SucceededWrite(setter, field) ==
    /\ op' = setter
    /\ effects'.writes /= {}
    /\ field \notin hist'.unsaved

\* C22: a setter whose write fails leaves the new value in memory; the ticks
\* that follow decide from the values in memory, saved or not; and a write
\* that succeeds stores the values that memory then holds for every field of
\* the record.
C22_WriteFailureKeepsValue ==
    /\ [][ /\ FailedWrite("set_setpoint", "setpoint")
              => setpoint' = Value(effects'.arg)
           /\ FailedWrite("set_differential", "differential")
              => differential' = Value(effects'.arg)
           /\ (FailedWrite("set_override", "pump") /\ effects'.arg[1] = "pump")
              => manual_pump_override' = parsed_value(effects'.arg[2])
           /\ SucceededWrite("set_setpoint", "setpoint")
              => files'.setpoint.setpoint = Reading(setpoint')
           /\ SucceededWrite("set_differential", "differential")
              => /\ files'.operational_params.differential = Reading(differential')
                 /\ files'.operational_params.ambient_lockout_setpoint
                    = Reading(ambient_lockout_setpoint')
           /\ (op' = "set_override" /\ effects'.writes /= {}
               /\ effects'.arg[1] \notin hist'.unsaved)
              => /\ files'.overrides.manual_pump_override = manual_pump_override'
                 /\ files'.overrides.manual_chiller_override = manual_chiller_override'
                 /\ files'.overrides.manual_cooling_override = manual_cooling_override'
         ]_vars
    /\ [](Ticked
          => /\ manual_pump_override = "on" => tick.pump_on_decision
             /\ (/\ tick.pump_on_decision
                 /\ ~critical_sensor_fault
                 /\ supply_now /= NoReading
                 /\ ~tick.is_chiller_currently_running_hw
                 /\ tick.condenser_on_decision)
                => Value(supply_now) >= setpoint + differential)

\* the condenser has been turned On by a tick at the threshold that a
\* setpoint and a differential give whose writes both failed: the files hold
\* nothing, and the defaults would have kept it Off
C22_Witness ==
    /\ Ticked
    /\ {"setpoint", "differential"} \subseteq hist.unsaved
    /\ ~files.setpoint.exists
    /\ ~files.operational_params.exists
    /\ ~tick.is_chiller_currently_running_hw
    /\ tick.condenser_on_decision
    /\ Value(supply_now) < FALLBACK_SETPOINT_F + INITIAL_DIFFERENTIAL_F

\* SystemState has just been constructed
Started == op \in {"init", "restart"}

\* the file is missing, or json.load does not return an object from it
Unreadable(f) == ~Readable(f)

\* the file is an object that holds a value of the right kind for every key
SetpointFileGood == Readable(files.setpoint) /\ files.setpoint.setpoint /= NoReading

ParamsFileGood ==
    /\ Readable(files.operational_params)
    /\ files.operational_params.differential /= NoReading
    /\ files.operational_params.ambient_lockout_setpoint /= NoReading

OverridesFileGood ==
    /\ Readable(files.overrides)
    /\ files.overrides.manual_pump_override \in OverrideValues
    /\ files.overrides.manual_chiller_override \in OverrideValues
    /\ files.overrides.manual_cooling_override \in OverrideValues

\* C23: after startup, each record whose file is missing or is rejected by
\* the JSON parser holds its configured default in every field, whatever the
\* other two files are; each record whose file is well formed holds the
\* values of its file; and the startup changes no file.
C23_StartupDefaults ==
    /\ [](Started
          => /\ Unreadable(files.setpoint) => setpoint = FALLBACK_SETPOINT_F
             /\ Unreadable(files.operational_params)
                => /\ differential = INITIAL_DIFFERENTIAL_F
                   /\ ambient_lockout_setpoint = INITIAL_AMBIENT_LOCKOUT_SETPOINT_F
             /\ Unreadable(files.overrides)
                => /\ manual_pump_override = None
                   /\ manual_chiller_override = None
                   /\ manual_cooling_override = None
             /\ SetpointFileGood => setpoint = Value(files.setpoint.setpoint)
             /\ ParamsFileGood
                => /\ differential = Value(files.operational_params.differential)
                   /\ ambient_lockout_setpoint
                      = Value(files.operational_params.ambient_lockout_setpoint)
             /\ OverridesFileGood
                => /\ manual_pump_override = files.overrides.manual_pump_override
                   /\ manual_chiller_override = files.overrides.manual_chiller_override
                   /\ manual_cooling_override = files.overrides.manual_cooling_override)
    /\ [][op' = "restart" => files' = files]_vars

\* a restart has found a setpoint file that the parser rejects next to well
\* formed files of the other two records, whose values it has loaded
C23_Witness ==
    /\ op = "restart"
    /\ files.setpoint.exists
    /\ ~files.setpoint.parses
    /\ setpoint = FALLBACK_SETPOINT_F
    /\ differential = 1
    /\ ambient_lockout_setpoint = 45
    /\ manual_pump_override = "on"

\* the decision of the tick that the step completes, for a device
DecisionAfter(device) ==
    IF device = "pump" THEN tick'.pump_on_decision ELSE tick'.condenser_on_decision

\* C25: a tick drives the output of a device exactly when its decision for
\* the device differs from the cached commanded state, and leaves the cached
\* commanded state of both devices equal to its decisions.
C25_ActuateOnChange ==
    [][ op' = "control_loop"
        => \A device \in {"pump", "condenser"} :
              /\ device \in effects'.actuated
                 <=> relay_states[device] /= DecisionAfter(device)
              /\ relay_states'[device] = DecisionAfter(device)
      ]_vars

\* a tick has turned the condenser Off and left the pump, which was On and
\* stays On, alone
C25_Witness ==
    /\ Ticked
    /\ effects.actuated = {"condenser"}
    /\ tick.pump_on_decision
    /\ ~tick.condenser_on_decision

\* a tick in auto mode with the pump decided On, no fault and a supply reading
AutoTickWithSupply ==
    /\ Ticked
    /\ manual_chiller_override = None
    /\ tick.pump_on_decision
    /\ ~critical_sensor_fault
    /\ supply_now /= NoReading

\* the configuration and the history of the example: setpoint 45,
\* differential 3, minimum off time 120 s, time counted from construction
ExampleAt(seconds) ==
    /\ AutoTickWithSupply
    /\ setpoint = 45
    /\ differential = 3
    /\ CONDENSER_MIN_OFF_TIME_SEC = 120
    /\ now = StartTime + seconds

\* C26: a tick in auto mode with the pump decided On, no fault and a valid
\* supply reading, that finds the condenser commanded Off with the supply at
\* or above setpoint + differential, decides On exactly when now -
\* condenser_last_off_time has reached CONDENSER_MIN_OFF_TIME_SEC; with the
\* defaults and the condenser Off since construction, it decides Off after
\* 10 s at 49 F and On after 121 s at 49 F, and a running condenser is turned
\* Off after 130 s at 44 F with condenser_last_off_time set to that time.
C26_OnAfterMinimumOff ==
    /\ (/\ AutoTickWithSupply
        /\ ~tick.is_chiller_currently_running_hw
        /\ Value(supply_now) >= setpoint + differential)
       => (tick.condenser_on_decision
             <=> now - condenser_last_off_time >= CONDENSER_MIN_OFF_TIME_SEC)
    /\ (/\ ExampleAt(10)
        /\ ~tick.is_chiller_currently_running_hw
        /\ condenser_last_off_time = StartTime
        /\ Value(supply_now) = 49)
       => ~tick.condenser_on_decision /\ ~relay_states["condenser"]
    /\ (/\ ExampleAt(121)
        /\ ~tick.is_chiller_currently_running_hw
        /\ condenser_last_off_time = StartTime
        /\ Value(supply_now) = 49)
       => tick.condenser_on_decision /\ relay_states["condenser"]
    /\ (/\ ExampleAt(130)
        /\ tick.is_chiller_currently_running_hw
        /\ Value(supply_now) = 44)
       => /\ ~tick.condenser_on_decision
          /\ ~relay_states["condenser"]
          /\ condenser_last_off_time = StartTime + 130

\* the condenser, Off since construction and turned On once the minimum off
\* time had passed, is turned Off 130 s after construction by a 44 F reading
C26_Witness ==
    /\ ExampleAt(130)
    /\ tick.is_chiller_currently_running_hw
    /\ Value(supply_now) = 44
    /\ ~tick.condenser_on_decision
    /\ hist.cond_off_at = now
    /\ condenser_last_off_time = StartTime + 130

\* C27: a tick whose pump decision is On decides condenser On under the
\* condenser override On, whatever the ambient lockout, the critical-sensor
\* fault, the supply reading, the commanded condenser state and the time since
\* the condenser last went Off; under the condenser override Off it decides
\* condenser Off.
C27_CondenserOverrideWins ==
    (Ticked /\ tick.pump_on_decision)
    => /\ manual_chiller_override = "on"
          => tick.condenser_on_decision /\ relay_states["condenser"]
       /\ manual_chiller_override = "off"
          => ~tick.condenser_on_decision /\ ~relay_states["condenser"]

\* the condenser is turned On by its override while the ambient lockout is
\* active, the critical sensor is in fault and the minimum off time has not
\* passed
C27_Witness ==
    /\ Ticked
    /\ tick.pump_on_decision
    /\ manual_chiller_override = "on"
    /\ tick.condenser_on_decision
    /\ ~tick.is_chiller_currently_running_hw
    /\ ambient_lockout_active
    /\ critical_sensor_fault
    /\ supply_now = NoReading
    /\ now - condenser_last_off_time < CONDENSER_MIN_OFF_TIME_SEC

\* the condenser is turned Off by its override with the supply at the On
\* threshold
C27_WitnessOff ==
    /\ Ticked
    /\ tick.pump_on_decision
    /\ manual_chiller_override = "off"
    /\ tick.is_chiller_currently_running_hw
    /\ ~tick.condenser_on_decision
    /\ supply_now = Reading(48)

\* C28: a tick under the pump override On decides pump On, and under the pump
\* override Off decides pump Off, whatever the demand tracker returned and
\* whatever the ambient lockout; either way pump_post_purge_end_time is 0
\* after the tick, also when the tracker started a post-purge in that tick.
C28_PumpOverrideWins ==
    Ticked
    => /\ manual_pump_override = "on"
          => /\ tick.pump_on_decision
             /\ relay_states["pump"]
             /\ pump_post_purge_end_time = 0
       /\ manual_pump_override = "off"
          => /\ ~tick.pump_on_decision
             /\ ~relay_states["pump"]
             /\ pump_post_purge_end_time = 0

\* under the pump override Off and an active ambient lockout, the tick in
\* which the call timed out and the tracker started a post-purge, so that it
\* reported demand, decides pump Off and leaves no post-purge
C28_Witness ==
    /\ Ticked
    /\ manual_pump_override = "off"
    /\ hist.call_off_at = now
    /\ tick.demand_for_pump
    /\ ambient_lockout_active
    /\ ~tick.pump_on_decision
    /\ pump_post_purge_end_time = 0

\* under the pump override On the pump runs with no demand
C28_WitnessOn ==
    /\ Ticked
    /\ manual_pump_override = "on"
    /\ ~tick.demand_for_pump
    /\ tick.pump_on_decision

\* C29: a tick under the Auto pump override with the ambient lockout not
\* active decides pump On exactly when the demand tracker returned true for
\* that tick, which is is_ahu_calling or now < pump_post_purge_end_time as the
\* tracker left them, whatever the sensor readings and the critical-sensor
\* fault flag.
C29_AutoPumpFollowsDemand ==
    (Ticked /\ manual_pump_override = None /\ ~ambient_lockout_active)
    => /\ tick.pump_on_decision <=> tick.demand_for_pump
       /\ tick.demand_for_pump <=> (is_ahu_calling \/ now < pump_post_purge_end_time)
       /\ relay_states["pump"] <=> tick.pump_on_decision

\* the pump runs in auto mode on a post-purge alone while the critical
\* sensor is in fault and no supply reading is available
C29_Witness ==
    /\ Ticked
    /\ manual_pump_override = None
    /\ ~ambient_lockout_active
    /\ critical_sensor_fault
    /\ supply_now = NoReading
    /\ ~is_ahu_calling
    /\ now < pump_post_purge_end_time
    /\ tick.pump_on_decision

\* the pump stays Off in auto mode without demand, with valid readings
C29_WitnessOff ==
    /\ Ticked
    /\ manual_pump_override = None
    /\ ~ambient_lockout_active
    /\ ~critical_sensor_fault
    /\ supply_now = Reading(48)
    /\ ~tick.demand_for_pump
    /\ ~tick.pump_on_decision

\* the step is an evaluation of the ambient lockout, from a sensor batch or
\* from a change of the lockout setpoint, on a reading that lies in
\* [lockout setpoint, lockout setpoint + deadband] as the step leaves them
DeadbandEvaluation ==
    /\ \/ /\ op' = "update_temperatures"
          /\ sensor_loop_alive'
          /\ sensor_readings_valid'["ambient"]
       \/ /\ op' = "set_ambient_lockout_setpoint"
          /\ ambient_lockout_setpoint' /= ambient_lockout_setpoint
          /\ sensor_readings_valid'["ambient"]
    /\ Value(sensor_temps'["ambient"]) >= ambient_lockout_setpoint'
    /\ Value(sensor_temps'["ambient"]) <= ambient_lockout_setpoint' + AMBIENT_LOCKOUT_DEADBAND_F

\* C30: an evaluation of the ambient lockout on a reading inside the deadband
\* leaves both debounce timestamps at zero and ambient_lockout_active as it
\* was, from the locked and from the unlocked state and whatever the two
\* timestamps were before.
C30_DeadbandKeepsLockout ==
    [][DeadbandEvaluation
       => /\ ambient_temp_below_lockout_setpoint_since' = 0
          /\ ambient_temp_above_lockout_release_since' = 0
          /\ ambient_lockout_active' = ambient_lockout_active]_vars

\* a change of the lockout setpoint has put the last reading inside the
\* deadband while the lockout was active: it stays active, no timer runs
C30_Witness ==
    /\ op = "set_ambient_lockout_setpoint"
    /\ EvaluatedInDeadband
    /\ hist.evaluated = get_sensor_temp("ambient")
    /\ ambient_lockout_active
    /\ ambient_temp_below_lockout_setpoint_since = 0
    /\ ambient_temp_above_lockout_release_since = 0

\* the step is a set_ambient_lockout_setpoint that changes the setpoint
LockoutSetpointChange ==
    /\ op' = "set_ambient_lockout_setpoint"
    /\ ambient_lockout_setpoint' /= ambient_lockout_setpoint

\* C31: a set_ambient_lockout_setpoint that changes the setpoint leaves, in
\* the same operation, the timestamp of the side the current ambient reading
\* is on under the new setpoint at the time of the change and the other
\* timestamp at zero (both at zero for a reading in the new deadband or an
\* unavailable one); with a positive debounce duration and an available
\* reading the lockout flag is not changed by the operation, however long a
\* timer had run under the old setpoint.
C31_SetpointChangeRestartsDebounce ==
    [][LockoutSetpointChange
       => LET side == AmbientSide(get_sensor_temp("ambient")', ambient_lockout_setpoint')
          IN  /\ ambient_temp_below_lockout_setpoint_since'
                   = IF side = "below" THEN now' ELSE 0
              /\ ambient_temp_above_lockout_release_since'
                   = IF side = "above" THEN now' ELSE 0
              /\ (/\ get_sensor_temp("ambient")' /= NoReading
                  /\ AMBIENT_LOCKOUT_DEBOUNCE_DURATION_SEC > 0)
                 => ambient_lockout_active' = ambient_lockout_active]_vars

\* the lockout setpoint was changed while the lockout was active and the
\* ambient reading had been above the release target since an earlier poll:
\* the release timer counts from the change
C31_Witness ==
    /\ op = "set_ambient_lockout_setpoint"
    /\ ambient_lockout_active
    /\ hist.run_kind = "above"
    /\ hist.run_since = now
    /\ ambient_temp_above_lockout_release_since = now
    /\ ambient_temp_below_lockout_setpoint_since = 0
    /\ now >= StartTime + ScaledDebounce + 1

\* the step is a remote call
RemoteCall == op' = "update_ahu_call"

\* the step sets the cooling override to On
CoolingSetOn ==
    /\ op' = "set_override"
    /\ manual_cooling_override /= "on"
    /\ manual_cooling_override' = "on"

\* the part of C32 about remote calls: a remote call leaves no purge pending
RemoteCallCancelsPurge == [][RemoteCall => pump_post_purge_end_time' = 0]_vars

\* C32: a remote call, and the cooling override being set to On, leave
\* pump_post_purge_end_time = 0, also while a post-purge is in progress; no
\* purge is pending while the call is active.
C32_DemandCancelsPurge ==
    /\ [][(RemoteCall \/ CoolingSetOn) => pump_post_purge_end_time' = 0]_vars
    /\ [](is_ahu_calling => pump_post_purge_end_time = 0)

\* C33: an evaluation of check_for_call_timeout at time now leaves
\* is_ahu_calling equal to (now - last_ahu_call_time < AHU_CALL_TIMEOUT_SEC)
\* or (cooling override = On), so that a cooling override of Off does not
\* suppress a remote call; it sets pump_post_purge_end_time to now +
\* PUMP_POST_PURGE_DURATION_SEC exactly when is_ahu_calling goes from true to
\* false and leaves it unchanged otherwise.
C33_CallTracking ==
    [][op' = "control_loop"
       => /\ is_ahu_calling'
               <=> \/ now - last_ahu_call_time < AHU_CALL_TIMEOUT_SEC
                   \/ manual_cooling_override = "on"
          /\ pump_post_purge_end_time'
               = IF is_ahu_calling /\ ~is_ahu_calling'
                 THEN now + PUMP_POST_PURGE_DURATION_SEC
                 ELSE pump_post_purge_end_time]_vars

\* the evaluation that found the call ended has opened the purge window
C33_Witness ==
    /\ Ticked
    /\ hist.call_off_at = now
    /\ ~is_ahu_calling
    /\ pump_post_purge_end_time = now + PUMP_POST_PURGE_DURATION_SEC

\* a remote call is tracked under a cooling override of Off
C33_WitnessOff ==
    /\ Ticked
    /\ manual_cooling_override = "off"
    /\ now - last_ahu_call_time < AHU_CALL_TIMEOUT_SEC
    /\ is_ahu_calling

\* C34: the fault flag goes from false to true only when some critical key
\* is left without a valid reading, so an invalid reading for a key outside
\* the critical set does not raise it; and after every batch that leaves every
\* critical key with a valid reading the flag is false, whatever it was.
C34_FaultFollowsCriticalKeys ==
    [][ /\ (~critical_sensor_fault /\ critical_sensor_fault')
           => \E key \in CRITICAL_SENSOR_KEYS : ~sensor_readings_valid'[key]
        /\ (/\ op' = "update_temperatures"
            /\ \A key \in CRITICAL_SENSOR_KEYS : sensor_readings_valid'[key])
           => ~critical_sensor_fault'
      ]_vars

\* a batch with an invalid ambient reading and a valid supply reading, the
\* supply probe being the one critical sensor, has left the fault flag false
C34_Witness ==
    /\ op = "update_temperatures"
    /\ CRITICAL_SENSOR_KEYS = {"supply"}
    /\ ~sensor_readings_valid["ambient"]
    /\ sensor_readings_valid["supply"]
    /\ ~critical_sensor_fault

\* the step is an update_temperatures that returns
BatchCompletes == [][op' = "update_temperatures" => sensor_loop_alive']_vars

\* the step is an update_temperatures whose batch holds the ambient key, as
\* every batch of a configuration with an ambient sensor does, and the
\* lockout fields are what update_ambient_lockout_status makes of them on the
\* ambient reading the batch leaves
BatchReevaluates ==
    [][op' = "update_temperatures"
       => LET lk == LockoutStatus(now, get_sensor_temp("ambient")',
                                  ambient_lockout_active,
                                  ambient_temp_below_lockout_setpoint_since,
                                  ambient_temp_above_lockout_release_since,
                                  ambient_lockout_setpoint)
          IN  /\ ambient_lockout_active' = lk.active
              /\ ambient_temp_below_lockout_setpoint_since' = lk.below
              /\ ambient_temp_above_lockout_release_since' = lk.above]_vars

\* C35: update_temperatures evaluates the ambient lockout again within the
\* same update whenever the batch holds the ambient key, with a valid or an
\* invalid value, and it completes without error for every batch and every
\* critical-sensor configuration, the empty one included.
C35_BatchReevaluatesLockout == BatchReevaluates /\ BatchCompletes

\* C36: the (pump, condenser) decision of every completed iteration is the
\* one the decision function gives on the shared state as it stood at some
\* single instant of the iteration, whatever the other threads did between
\* the iteration's reads.
C36_DecisionFromOneSnapshot ==
    (op = "control_loop" /\ hist.outcomes /= {})
    => <<tick.pump_on_decision, tick.condenser_on_decision>> \in hist.outcomes

\* C37: in every state in which no link-activity notification is in progress,
\* whatever the interleaving of check_mqtt_failsafe with
\* update_mqtt_timestamp, mqtt_comms_lost implies that the silence since
\* last_mqtt_message_time exceeds MQTT_FAILSAFE_TIMEOUT_SEC.
C37_LostOnlyAfterSilence ==
    (threads.command.pc = "idle" /\ mqtt_comms_lost)
    => now - last_mqtt_message_time > MQTT_FAILSAFE_TIMEOUT_SEC

\* C38: SystemState is constructed with both cached relay commands Off and
\* condenser_last_off_time at the construction time, and under the Auto
\* condenser override no tick turns the condenser On before
\* CONDENSER_MIN_OFF_TIME_SEC has passed since the construction, whatever the
\* supply temperature.
C38_NoStartBeforeMinimumOff ==
    /\ op = "init"
       => /\ ~relay_states["pump"]
          /\ ~relay_states["condenser"]
          /\ condenser_last_off_time = StartTime
          /\ now = StartTime
    /\ (/\ Ticked
        /\ manual_chiller_override = None
        /\ ~tick.is_chiller_currently_running_hw
        /\ now - StartTime < CONDENSER_MIN_OFF_TIME_SEC)
       => ~tick.condenser_on_decision /\ ~relay_states["condenser"]

\* one second before the minimum off time has passed since construction, a
\* tick with the pump On and the supply above the On threshold keeps the
\* condenser, which has never run, Off
C38_Witness ==
    /\ Ticked
    /\ manual_chiller_override = None
    /\ tick.pump_on_decision
    /\ ~critical_sensor_fault
    /\ supply_now /= NoReading
    /\ Value(supply_now) >= setpoint + differential
    /\ now - StartTime = CONDENSER_MIN_OFF_TIME_SEC - 1
    /\ hist.cond_off_at = 0
    /\ condenser_last_off_time = StartTime
    /\ ~tick.condenser_on_decision

\* the step is a tick of the control loop
TickStep == op' = "control_loop"

\* the tick finds the cooling call ended
CallEndsInTick == TickStep /\ is_ahu_calling /\ ~is_ahu_calling'

\* C39: a tick that finds the cooling call ended while the pump override is
\* On or Off leaves no post-purge; a post-purge is started only by a tick that
\* finds a call ended under the Auto pump override; and an Auto tick with no
\* call before or after it and no pending post-purge commands the pump Off
\* and starts no post-purge.
C39_OverrideCancelsPurgeForGood ==
    /\ [][(CallEndsInTick /\ manual_pump_override \in {"on", "off"})
          => pump_post_purge_end_time' = 0]_vars
    /\ [][(pump_post_purge_end_time = 0 /\ pump_post_purge_end_time' /= 0)
          => CallEndsInTick /\ manual_pump_override = None]_vars
    /\ [][(/\ TickStep
           /\ manual_pump_override = None
           /\ pump_post_purge_end_time = 0
           /\ ~is_ahu_calling
           /\ ~is_ahu_calling')
          => /\ ~tick'.pump_on_decision
             /\ ~relay_states'["pump"]
             /\ pump_post_purge_end_time' = 0]_vars

\* the call ended at an earlier tick under a pump override, so that inside
\* what would have been its post-purge window an Auto tick with no new call
\* finds no post-purge and commands the pump Off
C39_Witness ==
    /\ Ticked
    /\ manual_pump_override = None
    /\ ~is_ahu_calling
    /\ now - last_ahu_call_time >= AHU_CALL_TIMEOUT_SEC
    /\ hist.call_off_at /= 0
    /\ now < hist.call_off_at + PUMP_POST_PURGE_DURATION_SEC
    /\ pump_post_purge_end_time = 0
    /\ ~ambient_lockout_active
    /\ ~tick.demand_for_pump
    /\ ~tick.pump_on_decision
    /\ ~relay_states["pump"]

\* the overrides other than the one of the device
OtherOverrides(device) == [ d \in Devices \ {device} |-> get_override(d) ]

\* C40: set_override for pump, chiller or cooling with a value that is not a
\* spelling of On or Off in any case and with surrounding blanks (None,
\* "auto", an unrecognised string, a string with a blank inside) leaves that
\* device's override Auto, and with such a spelling leaves it On or Off; it
\* leaves the other overrides alone and writes overrides.json exactly when
\* the device's stored override changed; for any other device it changes no
\* override and no file and writes nothing.
C40_UnrecognisedValueMeansAuto ==
    [][op' = "set_override"
       => \A device \in CommandDevices, value \in TextPayloads :
              effects'.arg = << device, value >>
              =>
              IF device \in {"pump", "chiller", "cooling"}
              THEN /\ value \in {None, "auto", "garbage", "o n"}
                      => get_override(device)' = None
                   /\ value \in {"on", " ON "} => get_override(device)' = "on"
                   /\ value \in {"off", "Off"} => get_override(device)' = "off"
                   /\ OtherOverrides(device)' = OtherOverrides(device)
                   /\ effects'.writes
                        = IF get_override(device)' /= get_override(device)
                          THEN {"overrides"}
                          ELSE {}
                   /\ effects'.writes = {} => files' = files
              ELSE /\ UNCHANGED <<overrideVars, paramVars, files>>
                   /\ effects'.writes = {}]_vars

\* an override of On was cleared by an unrecognised string and the record
\* was written
C40_Witness ==
    /\ op = "set_override"
    /\ effects.arg = << "chiller", "garbage" >>
    /\ manual_chiller_override = None
    /\ manual_pump_override = "on"
    /\ effects.writes = {"overrides"}
    /\ files.overrides.exists
    /\ files.overrides.manual_chiller_override = None
    /\ files.overrides.manual_pump_override = "on"

\* a command for a device without an override left the overrides in place and
\* wrote nothing
C40_WitnessInvalidDevice ==
    /\ op = "set_override"
    /\ effects.arg = << "condenser", "on" >>
    /\ manual_pump_override = "off"
    /\ manual_chiller_override = "on"
    /\ effects.writes = {}

\* an override was set by a capitalised spelling with surrounding blanks
C40_WitnessTrimmed ==
    /\ op = "set_override"
    /\ effects.arg = << "cooling", " ON " >>
    /\ manual_cooling_override = "on"
    /\ effects.writes = {"overrides"}

====
